---- MODULE Spec2Model ----
(***************************************************************************)
(* Streaming copy of a SQLite database into a second database with a       *)
(* per-value PII transformation (sqlite_stream_processor.py and            *)
(* pii_anonymization_pipeline.py).                                         *)
(*                                                                         *)
(* Strings the code inspects (column names, declared types, cell text) are *)
(* sequences of one-character strings, so lower(), upper(), endswith(),    *)
(* strip() and str() are computed and not looked up.  Table names are      *)
(* plain strings: the code only uses them as dictionary keys.              *)
(***************************************************************************)
EXTENDS Integers, Sequences, FiniteSets, TLC

(***************************************************************************)
(* Bounds of the model.                                                    *)
(***************************************************************************)
MaxRows == 2
MaxBatch == 2
MaxWorkers == 2
MaxRuns == 2
MaxCalls == 3

(***************************************************************************)
(* Generic helpers.                                                        *)
(***************************************************************************)
Range(s) == {s[i] : i \in 1..Len(s)}

Min(a, b) == IF a <= b THEN a ELSE b

RECURSIVE SeqSum(_)
SeqSum(s) == IF s = <<>> THEN 0 ELSE Head(s) + SeqSum(Tail(s))

RECURSIVE Concat(_)
Concat(ss) == IF ss = <<>> THEN <<>> ELSE Head(ss) \o Concat(Tail(ss))

(***************************************************************************)
(* Character level string operations of Python.                            *)
(***************************************************************************)
UpperLetters == <<"A","B","C","D","E","F","G","H","I","J","K","L","M",
                  "N","O","P","Q","R","S","T","U","V","W","X","Y","Z">>
LowerLetters == <<"a","b","c","d","e","f","g","h","i","j","k","l","m",
                  "n","o","p","q","r","s","t","u","v","w","x","y","z">>
DigitChars == <<"0","1","2","3","4","5","6","7","8","9">>

LowerChar(c) ==
    IF \E i \in 1..26 : UpperLetters[i] = c
    THEN LowerLetters[CHOOSE i \in 1..26 : UpperLetters[i] = c]
    ELSE c

UpperChar(c) ==
    IF \E i \in 1..26 : LowerLetters[i] = c
    THEN UpperLetters[CHOOSE i \in 1..26 : LowerLetters[i] = c]
    ELSE c

\* str.lower()
Lower(s) == [i \in 1..Len(s) |-> LowerChar(s[i])]

\* str.upper()
Upper(s) == [i \in 1..Len(s) |-> UpperChar(s[i])]

\* str.endswith(suffix)
EndsWith(s, suffix) ==
    /\ Len(s) >= Len(suffix)
    /\ SubSeq(s, Len(s) - Len(suffix) + 1, Len(s)) = suffix

\* str.strip(): drop leading and trailing blanks
RECURSIVE LStrip(_)
LStrip(s) == IF s # <<>> /\ Head(s) = " " THEN LStrip(Tail(s)) ELSE s

RECURSIVE RStrip(_)
RStrip(s) ==
    IF s # <<>> /\ s[Len(s)] = " " THEN RStrip(SubSeq(s, 1, Len(s) - 1)) ELSE s

Strip(s) == RStrip(LStrip(s))

\* str(n) of a non-negative integer
RECURSIVE IntToStr(_)
IntToStr(n) ==
    IF n < 10 THEN <<DigitChars[n + 1]>>
    ELSE IntToStr(n \div 10) \o <<DigitChars[(n % 10) + 1]>>

IsDigit(c) == c \in Range(DigitChars)

(***************************************************************************)
(* Cell values: NULL, integers and text.                                   *)
(***************************************************************************)
Null == [ty |-> "null", n |-> 0, s |-> <<>>]
IntV(k) == [ty |-> "int", n |-> k, s |-> <<>>]
TextV(chars) == [ty |-> "text", n |-> 0, s |-> chars]

\* str(value) as _anonymize_value applies it
Str(v) ==
    CASE v.ty = "int" -> IntToStr(v.n)
      [] v.ty = "text" -> v.s
      [] OTHER -> <<"N","o","n","e">>

(***************************************************************************)
(* The SQLite store.  A database maps each existing table name to its      *)
(* column list (name, declared type, position in the primary key as        *)
(* PRAGMA table_info reports it) and its rows in scan order.               *)
(***************************************************************************)
NoName == <<>>

Col(name, type, pk) == [name |-> name, type |-> type, pk |-> pk]

EmptyDb == [t \in {} |-> [cols |-> <<>>, rows |-> <<>>]]

HasTable(db, t) == t \in DOMAIN db

\* PRAGMA table_info(t): one entry per column, none for a missing table
PragmaTableInfo(db, t) == IF HasTable(db, t) THEN db[t].cols ELSE <<>>

\* the loop of get_table_info over the PRAGMA rows: each column whose pk
\* flag is non-zero overwrites primary_key, so the last one wins
RECURSIVE ScanPrimaryKey(_, _)
ScanPrimaryKey(cols, primary_key) ==
    IF cols = <<>> THEN primary_key
    ELSE ScanPrimaryKey(Tail(cols),
                        IF Head(cols).pk # 0 THEN Head(cols).name
                        ELSE primary_key)

\* get_table_info on a table that exists in the database
BuildTableInfo(db, t) ==
    LET columns_info == PragmaTableInfo(db, t) IN
    [name |-> t,
     columns |-> [i \in 1..Len(columns_info) |-> columns_info[i].name],
     column_types |-> [c \in {columns_info[i].name : i \in 1..Len(columns_info)} |->
                          (CHOOSE x \in Range(columns_info) : x.name = c).type],
     row_count |-> Len(db[t].rows),
     primary_key |-> ScanPrimaryKey(columns_info, NoName)]

\* SELECT * FROM t OFFSET offset, the LIMIT forgotten
SelectFromOffset(db, t, limit, offset) ==
    SubSeq(db[t].rows, offset + 1, Len(db[t].rows))

\* SELECT * FROM t LIMIT limit OFFSET offset: SQLite reads a negative LIMIT
\* as no limit and a negative OFFSET as 0
SelectLimitOffset(db, t, limit, offset) ==
    LET skipped == IF offset < 0 THEN 0 ELSE offset
        last == IF limit < 0 THEN Len(db[t].rows)
                ELSE Min(skipped + limit, Len(db[t].rows))
    IN  SubSeq(db[t].rows, skipped + 1, last)

\* CREATE TABLE IF NOT EXISTS without the PRIMARY KEY annotation
CreateTableWithoutPrimaryKey(db, table_info) ==
    IF HasTable(db, table_info.name) THEN db
    ELSE [t \in DOMAIN db \cup {table_info.name} |->
            IF t = table_info.name
            THEN [cols |-> [i \in 1..Len(table_info.columns) |->
                              Col(table_info.columns[i],
                                  table_info.column_types[table_info.columns[i]], 0)],
                  rows |-> <<>>]
            ELSE db[t]]

\* DROP TABLE IF EXISTS followed by CREATE TABLE
CreateTableReplacing(db, table_info) ==
    [t \in DOMAIN db \cup {table_info.name} |->
        IF t = table_info.name
        THEN [cols |-> [i \in 1..Len(table_info.columns) |->
                          Col(table_info.columns[i],
                              table_info.column_types[table_info.columns[i]],
                              IF table_info.columns[i] = table_info.primary_key
                              THEN 1 ELSE 0)],
              rows |-> <<>>]
        ELSE db[t]]

\* CREATE TABLE IF NOT EXISTS name (col type [PRIMARY KEY], ...)
CreateTableIfNotExists(db, table_info) ==
    IF HasTable(db, table_info.name) THEN db
    ELSE [t \in DOMAIN db \cup {table_info.name} |->
            IF t = table_info.name
            THEN [cols |-> [i \in 1..Len(table_info.columns) |->
                              Col(table_info.columns[i],
                                  table_info.column_types[table_info.columns[i]],
                                  IF table_info.columns[i] = table_info.primary_key
                                  THEN 1 ELSE 0)],
                  rows |-> <<>>]
            ELSE db[t]]

\* positions of the primary-key columns of a stored table
PkPositions(cols) == {i \in 1..Len(cols) : cols[i].pk # 0}

TypeINTEGER == <<"I","N","T","E","G","E","R">>

\* a single column declared INTEGER PRIMARY KEY is the rowid itself
IsRowidAlias(cols) ==
    /\ Cardinality(PkPositions(cols)) = 1
    /\ \A i \in PkPositions(cols) : Upper(cols[i].type) = TypeINTEGER

\* two rows collide on the primary key; NULL never equals NULL in a
\* unique index
SameKey(cols, r1, r2) ==
    /\ PkPositions(cols) # {}
    /\ \A i \in PkPositions(cols) : r1[i] = r2[i] /\ r1[i].ty # "null"

RECURSIVE RemoveConflicts(_, _, _)
RemoveConflicts(cols, rows, row) ==
    IF rows = <<>> THEN <<>>
    ELSE IF SameKey(cols, Head(rows), row)
         THEN RemoveConflicts(cols, Tail(rows), row)
         ELSE <<Head(rows)>> \o RemoveConflicts(cols, Tail(rows), row)

RowidOf(cols, row) == row[CHOOSE i \in PkPositions(cols) : TRUE].n

MaxRowid(cols, rows) ==
    IF rows = <<>> THEN 0
    ELSE CHOOSE m \in {RowidOf(cols, rows[i]) : i \in 1..Len(rows)} :
            \A i \in 1..Len(rows) : RowidOf(cols, rows[i]) <= m

\* scan order of a rowid-alias table is key order
RECURSIVE InsertByRowid(_, _, _)
InsertByRowid(cols, rows, row) ==
    IF rows = <<>> THEN <<row>>
    ELSE IF RowidOf(cols, row) < RowidOf(cols, Head(rows))
         THEN <<row>> \o rows
         ELSE <<Head(rows)>> \o InsertByRowid(cols, Tail(rows), row)

\* INSERT OR REPLACE of one row whose width matches the table
InsertOrReplaceRow(cols, rows, row) ==
    IF IsRowidAlias(cols)
    THEN LET k == CHOOSE i \in PkPositions(cols) : TRUE
             stored == IF row[k].ty = "null"
                       THEN [row EXCEPT ![k] = IntV(MaxRowid(cols, rows) + 1)]
                       ELSE row
         IN InsertByRowid(cols, RemoveConflicts(cols, rows, stored), stored)
    ELSE RemoveConflicts(cols, rows, row) \o <<row>>

\* a text value cannot be stored in an INTEGER PRIMARY KEY column
DatatypeMismatch(cols, row) ==
    /\ IsRowidAlias(cols)
    /\ \E i \in PkPositions(cols) : row[i].ty = "text"

\* cursor.executemany(insert_stmt, rows): rows are bound and executed one
\* after another inside one transaction; the first row that cannot be
\* bound or stored raises.  done counts the rows executed before that.
RECURSIVE ExecuteMany(_, _, _, _, _)
ExecuteMany(cols, stored, rows, placeholders, done) ==
    IF rows = <<>> THEN [err |-> "none", rows |-> stored, executed |-> done]
    ELSE IF Len(Head(rows)) # placeholders
         THEN [err |-> "ProgrammingError", rows |-> stored, executed |-> done]
    ELSE IF DatatypeMismatch(cols, Head(rows))
         THEN [err |-> "IntegrityError", rows |-> stored, executed |-> done]
    ELSE ExecuteMany(cols, InsertOrReplaceRow(cols, stored, Head(rows)),
                     Tail(rows), placeholders, done + 1)

\* insert_batch on a connection that commits every statement by itself:
\* the rows executed before the one that raises stay in the table
InsertBatchAutocommit(db, table_name, rows, table_info) ==
    IF rows = <<>> THEN [err |-> "none", db |-> db, executed |-> 0]
    ELSE
    LET output_columns == PragmaTableInfo(db, table_name)
        output_column_count == Len(output_columns)
        row_value_count == Len(rows[1])
        placeholders == Len(table_info.columns)
    IN  IF output_column_count # row_value_count
        THEN [err |-> "ValueError", db |-> db, executed |-> 0]
        ELSE IF ~HasTable(db, table_name) \/ placeholders # output_column_count
        THEN [err |-> "OperationalError", db |-> db, executed |-> 0]
        ELSE LET res == ExecuteMany(output_columns, db[table_name].rows, rows,
                                    placeholders, 0)
             IN  [err |-> res.err,
                  db |-> [db EXCEPT ![table_name].rows = res.rows],
                  executed |-> res.executed]

\* insert_batch: the width test on rows[0], the INSERT OR REPLACE statement
\* with one placeholder per descriptor column, executemany, commit; the
\* connection context manager rolls the transaction back on any exception
InsertBatch(db, table_name, rows, table_info) ==
    IF rows = <<>> THEN [err |-> "none", db |-> db, executed |-> 0]
    ELSE
    LET output_columns == PragmaTableInfo(db, table_name)
        output_column_count == Len(output_columns)
        row_value_count == Len(rows[1])
        placeholders == Len(table_info.columns)
    IN  IF output_column_count # row_value_count
        THEN [err |-> "ValueError", db |-> db, executed |-> 0]
        ELSE IF ~HasTable(db, table_name) \/ placeholders # output_column_count
        THEN [err |-> "OperationalError", db |-> db, executed |-> 0]
        ELSE LET res == ExecuteMany(output_columns, db[table_name].rows, rows,
                                    placeholders, 0)
             IN  IF res.err = "none"
                 THEN [err |-> "none",
                       db |-> [db EXCEPT ![table_name].rows = res.rows],
                       executed |-> res.executed]
                 ELSE [err |-> res.err, db |-> db, executed |-> res.executed]

(***************************************************************************)
(* The classification capability (Presidio analyzer and anonymizer) is an  *)
(* external engine.  It is modelled by a deterministic test double: every  *)
(* digit-dash-digit pattern is a US_SSN span of score 85, every "@" is an  *)
(* EMAIL_ADDRESS span of score 40, analyze raises on a text holding "!"    *)
(* and anonymize raises on a text holding "#".  Positions are 0-based and  *)
(* end-exclusive as in Presidio; scores are percentages.                   *)
(***************************************************************************)
Span(start, end, entity_type, score) ==
    [start |-> start, end |-> end, entity_type |-> entity_type, score |-> score]

AnalyzeRaises(text) == "!" \in Range(text)

AnonymizeRaises(text) == "#" \in Range(text)

RECURSIVE ScanSpans(_, _)
ScanSpans(text, p) ==
    IF p > Len(text) THEN <<>>
    ELSE IF /\ p + 2 <= Len(text)
            /\ IsDigit(text[p]) /\ text[p + 1] = "-" /\ IsDigit(text[p + 2])
         THEN <<Span(p - 1, p + 2, "US_SSN", 85)>> \o ScanSpans(text, p + 3)
    ELSE IF text[p] = "@"
         THEN <<Span(p - 1, p, "EMAIL_ADDRESS", 40)>> \o ScanSpans(text, p + 1)
    ELSE ScanSpans(text, p + 1)

\* PresidioManager.analyze_text on an enabled manager
Analyze(text) == ScanSpans(text, 1)

Placeholder(entity_type) ==
    IF entity_type = "US_SSN" THEN "<US_SSN>" ELSE "<EMAIL_ADDRESS>"

\* the replace operator, applied from the last span to the first
RECURSIVE ReplaceSpans(_, _)
ReplaceSpans(text, spans) ==
    IF spans = <<>> THEN text
    ELSE LET sp == spans[Len(spans)]
             replaced == SubSeq(text, 1, sp.start)
                         \o <<Placeholder(sp.entity_type)>>
                         \o SubSeq(text, sp.end + 1, Len(text))
         IN ReplaceSpans(replaced, SubSeq(spans, 1, Len(spans) - 1))

\* an anonymizer that hands the text back as it was
AnonymizeKeepingText(text, analyzer_results) == text

\* PresidioManager.anonymize_text on an enabled manager
Anonymize(text, analyzer_results) == ReplaceSpans(text, analyzer_results)

(***************************************************************************)
(* Column policy (ColumnConfig, TableConfig).  entity_types = {} stands    *)
(* for None or an empty list and confidence_threshold = 0 for None or 0.0: *)
(* the code tests both by truthiness.                                      *)
(***************************************************************************)
ColumnConfig(enabled, entity_types, confidence_threshold) ==
    [enabled |-> enabled, entity_types |-> entity_types, language |-> "en",
     confidence_threshold |-> confidence_threshold]

DefaultColumnConfig == ColumnConfig(TRUE, {}, 0)

TableConfig(enabled, columns) == [enabled |-> enabled, columns |-> columns]

NoColumns == [c \in {} |-> DefaultColumnConfig]

NoTableConfigs == [t \in {} |-> TableConfig(TRUE, NoColumns)]

\* _get_column_config
GetColumnConfig(table_configs, table_name, column_name) ==
    IF /\ table_name \in DOMAIN table_configs
       /\ column_name \in DOMAIN table_configs[table_name].columns
    THEN table_configs[table_name].columns[column_name]
    ELSE DefaultColumnConfig

ProcessableTypes ==
    { <<"T","E","X","T">>, <<"V","A","R","C","H","A","R">>, <<"C","H","A","R">>,
      <<"S","T","R","I","N","G">>,
      <<"I","N","T","E","G","E","R">>, <<"I","N","T">>,
      <<"N","U","M","E","R","I","C">>, <<"R","E","A","L">>,
      <<"F","L","O","A","T">>, <<"D","O","U","B","L","E">>, <<"N","U","M">>,
      <<"D","A","T","E">>, <<"D","A","T","E","T","I","M","E">>,
      <<"T","I","M","E","S","T","A","M","P">> }

IdColumnPatterns ==
    { <<"u","s","e","r","_","i","d">>, <<"i","d">>, <<"u","u","i","d">>,
      <<"g","u","i","d">>, <<"k","e","y">>, <<"p","k">> }

\* the name test without lower()
IsIdColumnCaseSensitive(column_name) ==
    \/ column_name \in IdColumnPatterns
    \/ EndsWith(column_name, <<"_","i","d">>)

\* the identifier-shaped name test of _should_process_column
IsIdColumn(column_name) ==
    \/ Lower(column_name) \in IdColumnPatterns
    \/ EndsWith(Lower(column_name), <<"_","i","d">>)

\* the column test without the enabled flag of the table
ShouldProcessColumnIgnoringTable(table_configs, table_name, column_name, column_type) ==
    IF Upper(column_type) \notin ProcessableTypes THEN FALSE
    ELSE IF IsIdColumn(column_name) THEN FALSE
    ELSE IF /\ table_name \in DOMAIN table_configs
            /\ column_name \in DOMAIN table_configs[table_name].columns
         THEN table_configs[table_name].columns[column_name].enabled
         ELSE TRUE

\* _should_process_column
ShouldProcessColumn(table_configs, table_name, column_name, column_type) ==
    IF Upper(column_type) \notin ProcessableTypes THEN FALSE
    ELSE IF IsIdColumn(column_name) THEN FALSE
    ELSE IF table_name \in DOMAIN table_configs
         THEN IF ~table_configs[table_name].enabled THEN FALSE
              ELSE IF column_name \in DOMAIN table_configs[table_name].columns
                   THEN table_configs[table_name].columns[column_name].enabled
                   ELSE TRUE
         ELSE TRUE

\* analyzer_results = [r for r in analyzer_results if r.entity_type in ...]
FilterByEntityType(spans, entity_types) ==
    LET Keep(r) == r.entity_type \in entity_types IN SelectSeq(spans, Keep)

\* the confidence filter with a strict comparison
FilterByScoreStrict(spans, confidence_threshold) ==
    LET Keep(r) == r.score > confidence_threshold IN SelectSeq(spans, Keep)

\* analyzer_results = [r for r in analyzer_results if r.score >= ...]
FilterByScore(spans, confidence_threshold) ==
    LET Keep(r) == r.score >= confidence_threshold IN SelectSeq(spans, Keep)

\* an outcome that returns the string form of a number
OutcomeAsText(value, was, retained, analyzed, anonymized, failed) ==
    [value |-> IF value.ty = "int" THEN TextV(Str(value)) ELSE value,
     was_anonymized |-> was, retained |-> retained,
     analyze_called |-> analyzed, anonymize_called |-> anonymized,
     failed |-> failed]

\* _anonymize_value without its counter updates: the value returned, the
\* was_anonymized flag, the spans retained by the filters (one
\* entities_found increment each once anonymize has returned), and which
\* calls of the capability were made
Outcome(value, was, retained, analyzed, anonymized, failed) ==
    [value |-> value, was_anonymized |-> was, retained |-> retained,
     analyze_called |-> analyzed, anonymize_called |-> anonymized,
     failed |-> failed]

AnonymizeValue(table_configs, value, table_name, column_name) ==
    IF value.ty = "null" THEN Outcome(value, FALSE, <<>>, FALSE, FALSE, FALSE)
    ELSE
    LET text_value == Str(value)
        column_config == GetColumnConfig(table_configs, table_name, column_name)
    IN  IF text_value = <<>> \/ Len(Strip(text_value)) < 2
        THEN Outcome(value, FALSE, <<>>, FALSE, FALSE, FALSE)
        ELSE IF ~column_config.enabled
        THEN Outcome(value, FALSE, <<>>, FALSE, FALSE, FALSE)
        ELSE IF AnalyzeRaises(text_value)
        THEN Outcome(value, FALSE, <<>>, TRUE, FALSE, TRUE)
        ELSE
        LET found == Analyze(text_value)
            typed == IF column_config.entity_types # {}
                     THEN FilterByEntityType(found, column_config.entity_types)
                     ELSE found
            analyzer_results ==
                IF column_config.confidence_threshold # 0
                THEN FilterByScore(typed, column_config.confidence_threshold)
                ELSE typed
        IN  IF analyzer_results = <<>>
            THEN Outcome(value, FALSE, <<>>, TRUE, FALSE, FALSE)
            ELSE IF AnonymizeRaises(text_value)
            THEN Outcome(value, FALSE, analyzer_results, TRUE, TRUE, TRUE)
            ELSE Outcome(TextV(Anonymize(text_value, analyzer_results)), TRUE,
                         analyzer_results, TRUE, TRUE, FALSE)

(***************************************************************************)
(* Source databases and configurations the model runs on.                  *)
(***************************************************************************)
TypeTEXT == <<"T","E","X","T">>
TypeTextLower == <<"t","e","x","t">>

ColId == <<"i","d">>
ColName == <<"n","a","m","e">>
ColOrderId == <<"o","r","d","e","r","_","i","d">>
ColItemId == <<"i","t","e","m","_","i","d">>
ColUuid == <<"U","U","I","D">>
ColAge == <<"a","g","e">>
ColEmail == <<"E","m","a","i","l">>
ColEmailLower == <<"e","m","a","i","l">>
ColNick == <<"n","i","c","k">>
ColKey == <<"K","e","y">>
TypeVarchar9 == <<"V","A","R","C","H","A","R","(","9",")">>
ColBody == <<"b","o","d","y">>

EntityTypes == {"US_SSN", "EMAIL_ADDRESS"}

TableNames == {"users", "orders", "notes", "people"}

\* users(id INTEGER PRIMARY KEY, name TEXT)
\* orders(order_id INTEGER, item_id INTEGER, PRIMARY KEY (order_id, item_id))
\* notes(UUID TEXT PRIMARY KEY, body text)
\* people(age INTEGER, Email text, nick VARCHAR(9), Key TEXT)
SchemaOf(t) ==
    CASE t = "users" -> <<Col(ColId, TypeINTEGER, 1), Col(ColName, TypeTEXT, 0)>>
      [] t = "people" -> <<Col(ColAge, TypeINTEGER, 0), Col(ColEmail, TypeTextLower, 0),
                           Col(ColNick, TypeVarchar9, 0), Col(ColKey, TypeTEXT, 0)>>
      [] t = "orders" -> <<Col(ColOrderId, TypeINTEGER, 1),
                           Col(ColItemId, TypeINTEGER, 2)>>
      [] OTHER -> <<Col(ColUuid, TypeTEXT, 1), Col(ColBody, TypeTextLower, 0)>>

TextSsn == TextV(<<"1","-","2">>)
TextClean == TextV(<<"a","b">>)
TextMail == TextV(<<"a","@","b">>)
TextBang == TextV(<<"!","!">>)
TextHash == TextV(<<"1","-","2","#">>)

TextPad == TextV(<<" ","a"," ">>)
TextBoth == TextV(<<"1","-","2","@">>)

UserNames == {TextSsn, TextClean, TextBang, Null}

\* every users table of at most MaxRows rows; the scan order of an INTEGER
\* PRIMARY KEY table is the order of its keys
UsersRows ==
    UNION {[1..n -> UserNames] : n \in 0..MaxRows}

UsersTable(names) == [i \in 1..Len(names) |-> <<IntV(i), names[i]>>]

\* rows of orders are distinct on (order_id, item_id); the first two share
\* their item_id
OrdersList == <<<<IntV(1), IntV(1)>>, <<IntV(2), IntV(1)>>, <<IntV(2), IntV(2)>>,
                <<IntV(3), IntV(2)>>, <<IntV(3), IntV(3)>>>>

\* rows of notes; SQLite accepts NULL in a TEXT PRIMARY KEY column
NotesList == <<<<TextSsn, TextMail>>, <<Null, TextHash>>, <<TextClean, TextSsn>>,
               <<TextMail, TextClean>>, <<TextBang, TextBang>>>>

Prefixes(list) == {SubSeq(list, 1, n) : n \in 0..Min(MaxRows, Len(list))}

\* a table alone in its file may hold one row more
LongPrefixes(list) == {SubSeq(list, 1, n) : n \in 0..Min(MaxRows + 1, Len(list))}

CanonicalNames == <<TextSsn, TextClean, TextBang, TextSsn, TextClean, TextSsn>>

Table(t, rows) == [cols |-> SchemaOf(t), rows |-> rows]

\* a source file without tables
EmptySource == [listing |-> <<>>, db |-> EmptyDb]

\* the source files with one table
UsersSources ==
    {[listing |-> <<"users">>, db |-> ("users" :> Table("users", UsersTable(names)))] :
        names \in UsersRows}

OneTableSources ==
    {[listing |-> <<"users">>,
      db |-> ("users" :> Table("users", UsersTable(names)))] :
        names \in LongPrefixes(CanonicalNames)}
    \cup {[listing |-> <<"orders">>, db |-> ("orders" :> Table("orders", rows))] :
        rows \in LongPrefixes(OrdersList)}
    \cup {[listing |-> <<"notes">>, db |-> ("notes" :> Table("notes", rows))] :
        rows \in LongPrefixes(NotesList)}

\* the source files with two tables, in sqlite_master order, of at most
\* MaxRows rows in all
TwoTableSources ==
    {[listing |-> <<"users", "notes">>,
      db |-> ("users" :> Table("users", UsersTable(names))
              @@ "notes" :> Table("notes", rows))] :
        <<names, rows>> \in {p \in Prefixes(CanonicalNames) \X Prefixes(NotesList) :
                               Len(p[1]) + Len(p[2]) <= MaxRows}}
    \cup
    {[listing |-> <<"orders", "users">>,
      db |-> ("orders" :> Table("orders", rows)
              @@ "users" :> Table("users", UsersTable(names)))] :
        <<rows, names>> \in {p \in Prefixes(OrdersList) \X Prefixes(CanonicalNames) :
                               Len(p[1]) + Len(p[2]) <= MaxRows}}

\* a destination file left with a users table that lacks the name column
StaleDb == ("users" :> [cols |-> <<Col(ColId, TypeINTEGER, 1)>>, rows |-> <<>>])

\* destination files left by an earlier run with a users table that holds
\* a row: one made from a source without the name column, one from a source
\* like this one
LeftoverDbs ==
    { ("users" :> [cols |-> <<Col(ColId, TypeINTEGER, 1)>>, rows |-> <<<<IntV(1)>>>>]),
      ("users" :> Table("users", UsersTable(<<TextClean>>))) }

\* table_configs handed to the pipeline: none; every policy spelled out for
\* users (the id column enabled, name restricted to US_SSN at confidence
\* 50); the users table disabled
ConfigExplicit ==
    ("users" :> TableConfig(TRUE,
                    (ColId :> ColumnConfig(TRUE, {}, 0)
                     @@ ColName :> ColumnConfig(TRUE, {"US_SSN"}, 50))))

ConfigDisabled == ("users" :> TableConfig(FALSE, NoColumns))

Config(batch_size, parallel, num_workers, enabled, table_configs) ==
    [batch_size |-> batch_size, enable_parallel_processing |-> parallel,
     num_workers |-> num_workers, enabled |-> enabled,
     table_configs |-> table_configs]

\* sequential runs: one table under every policy, one table with and
\* without anonymization, two tables with parallel processing off
SequentialInputs ==
    {[source |-> s, cfg |-> Config(b, FALSE, 1, TRUE, tc), dst |-> EmptyDb] :
        s \in UsersSources, b \in 1..MaxBatch,
        tc \in {NoTableConfigs, ConfigExplicit, ConfigDisabled}}
    \cup
    {[source |-> s, cfg |-> Config(b, par, 1, en, NoTableConfigs), dst |-> EmptyDb] :
        s \in OneTableSources, b \in 1..MaxBatch, par \in BOOLEAN, en \in BOOLEAN}
    \cup
    {[source |-> s, cfg |-> Config(b, FALSE, 1, TRUE, NoTableConfigs), dst |-> d] :
        s \in TwoTableSources, b \in 1..MaxBatch, d \in {EmptyDb, StaleDb}}
    \cup
    {[source |-> EmptySource, cfg |-> Config(1, par, 1, FALSE, NoTableConfigs),
      dst |-> EmptyDb] : par \in BOOLEAN}
    \cup
    {[source |-> [listing |-> <<"users">>,
                  db |-> ("users" :> Table("users", UsersTable(names)))],
      cfg |-> Config(1, FALSE, 1, TRUE, NoTableConfigs), dst |-> d] :
        names \in Prefixes(CanonicalNames), d \in LeftoverDbs}

\* parallel runs over two tables: every worker count at batch size 1, every
\* larger batch size on the largest pool, every worker count on a stale
\* output file
ParallelInputs ==
    {[source |-> s, cfg |-> Config(1, TRUE, w, en, NoTableConfigs), dst |-> EmptyDb] :
        s \in TwoTableSources, w \in 1..MaxWorkers, en \in BOOLEAN}
    \cup
    {[source |-> s, cfg |-> Config(b, TRUE, MaxWorkers, TRUE, NoTableConfigs),
      dst |-> EmptyDb] :
        s \in TwoTableSources, b \in 2..MaxBatch}
    \cup
    {[source |-> s, cfg |-> Config(1, TRUE, w, TRUE, NoTableConfigs), dst |-> StaleDb] :
        s \in TwoTableSources, w \in 1..MaxWorkers}

Inputs == SequentialInputs \cup ParallelInputs

(***************************************************************************)
(* State.                                                                  *)
(***************************************************************************)
VARIABLES
    source,              \* the input database file and its table listing
    cfg,                 \* batch processing and policy configuration
    dst,                 \* the output database file
    stats,               \* SQLiteStreamProcessor.stats (ProcessingStats)
    anonymization_stats, \* PIIAnonymizationPipeline.anonymization_stats
    table_info_cache,    \* SQLiteStreamProcessor.table_info_cache
    run,                 \* position of process_database
    raised,              \* the exception process_database raised, if any
    unit,                \* per table: position and locals of process_table
    submitted,           \* number of tables submitted to the executor
    done_order,          \* futures in the order they finished
    as_completed,        \* as_completed: futures found finished at its call
    observed,            \* futures as_completed has yielded so far
    calls,               \* per table: calls received by the capability
    read_log,            \* per table: batches yielded by stream_table_rows
    write_log,           \* per table: batches committed by insert_batch
    last_write,          \* the last insert_batch call and its outcome
    run_no,              \* number of the pipeline run on this output file
    previous,            \* the run before this one: outcome, output file it left
    worker,              \* worker.main: its environment, position and exit status
    info_log,            \* the get_table_info calls made from outside a run
    client               \* QueryEngineClient.execute_query: its clock, position and result

vars == <<source, cfg, dst, stats, anonymization_stats, table_info_cache, run,
          raised, unit, submitted, done_order, as_completed, observed, calls,
          read_log, write_log, last_write, run_no, previous, worker, info_log, client>>

Listing == source.listing

Tables == Range(Listing)

NoError == [table |-> "", err |-> "none", queued |-> {}]

NoWrite == [table |-> "", rows |-> <<>>, err |-> "none", executed |-> 0,
            before |-> <<>>, existed |-> FALSE]

NewStats == [total_tables |-> 0, processed_tables |-> 0, total_rows |-> 0,
             processed_rows |-> 0, anonymized_rows |-> 0, ended |-> FALSE]

NewAnonymizationStats ==
    [total_values_processed |-> 0, total_values_anonymized |-> 0,
     entities_found |-> [e \in EntityTypes |-> 0],
     tables_processed |-> [t \in TableNames |-> 0]]

NoRun == [run |-> "none", dst |-> EmptyDb]

\* process_database called without worker.main around it
NoWorker == [pc |-> "none"]

\* no query engine client was constructed
NoClient == [pc |-> "none"]

NoTableInfo == [t \in {} |-> 0]

NewUnit == [pc |-> "NotStarted", offset |-> 0, batch |-> <<>>,
            processed_batch |-> <<>>, ri |-> 1, ci |-> 1,
            processed_row |-> <<>>, processed_list |-> <<>>,
            row_was_anonymized |-> FALSE, processed_rows |-> 0,
            todo |-> <<>>, loaded |-> -1, err |-> "none"]

\* the state a freshly constructed pipeline starts a run in
FreshRun(input) ==
    /\ source = input.source
    /\ cfg = input.cfg
    /\ stats = NewStats
    /\ anonymization_stats = NewAnonymizationStats
    /\ table_info_cache = NoTableInfo
    /\ run = "NotStarted"
    /\ raised = NoError
    /\ unit = [t \in Range(input.source.listing) |-> NewUnit]
    /\ submitted = 0
    /\ done_order = <<>>
    /\ as_completed = [called |-> FALSE, finished |-> {}]
    /\ observed = <<>>
    /\ calls = [t \in Range(input.source.listing) |-> <<>>]
    /\ read_log = [t \in Range(input.source.listing) |-> <<>>]
    /\ write_log = [t \in Range(input.source.listing) |-> <<>>]
    /\ last_write = NoWrite
    /\ info_log = <<>>

Init ==
    \E input \in Inputs :
        /\ FreshRun(input)
        /\ client = NoClient
        /\ dst = input.dst
        /\ run_no = 1
        /\ previous = [run |-> "none", dst |-> input.dst]
        /\ worker = NoWorker

\* a mode choice written with "or"
ParallelIfEither == cfg.enable_parallel_processing \/ Len(Listing) > 1

Parallel == cfg.enable_parallel_processing /\ Len(Listing) > 1

Terminal(t) == unit[t].pc \in {"TableDone", "TableFailed"}

Executing(t) == unit[t].pc \notin {"NotStarted", "Queued", "TableDone", "TableFailed"}

\* get_table_info: the cached descriptor, or a new one that is cached
GetTableInfo(cache, t) ==
    IF t \in DOMAIN cache THEN [info |-> cache[t], cache |-> cache]
    ELSE [info |-> BuildTableInfo(source.db, t),
          cache |-> [x \in DOMAIN cache \cup {t} |->
                        IF x = t THEN BuildTableInfo(source.db, t) ELSE cache[x]]]

\* the loop of process_database that caches every descriptor
RECURSIVE CacheAll(_, _)
CacheAll(cache, tables) ==
    IF tables = <<>> THEN cache
    ELSE CacheAll(GetTableInfo(cache, Head(tables)).cache, Tail(tables))

(***************************************************************************)
(* process_database, first part: list the tables, cache the descriptors,   *)
(* add up the row counts.                                                  *)
(***************************************************************************)
\* a discovery that counts the rows of every table without asking for
\* its descriptor
DiscoverWithoutCaching ==
    /\ run = "NotStarted"
    /\ stats' = [stats EXCEPT
                    !.total_tables = Len(Listing),
                    !.total_rows = SeqSum([i \in 1..Len(Listing) |->
                                              Len(source.db[Listing[i]].rows)])]
    /\ run' = "TableListed"
    /\ UNCHANGED <<source, cfg, dst, anonymization_stats, table_info_cache, raised,
                   unit, submitted, done_order, as_completed, observed, calls,
                   read_log, write_log, last_write, run_no, previous, worker, info_log, client>>

Discover ==
    /\ run = "NotStarted"
    /\ LET cache == CacheAll(table_info_cache, Listing) IN
        /\ table_info_cache' = cache
        /\ stats' = [stats EXCEPT
                        !.total_tables = Len(Listing),
                        !.total_rows = SeqSum([i \in 1..Len(Listing) |->
                                                  cache[Listing[i]].row_count])]
    /\ run' = "TableListed"
    /\ UNCHANGED <<source, cfg, dst, anonymization_stats, raised, unit, submitted,
                   done_order, as_completed, observed, calls, read_log, write_log,
                   last_write, run_no, previous, worker, info_log, client>>

(***************************************************************************)
(* process_table: one unit of work per table.  A step of a unit is atomic  *)
(* up to its next access to state shared with other units.                 *)
(***************************************************************************)
Increment(ctr, key, by) == [ctr |-> ctr, key |-> key, by |-> by]

\* an exception leaves process_table: the future of a pooled unit records
\* it; without a pool it unwinds process_database at once
UnitFails(t, u, kind) ==
    /\ unit' = [unit EXCEPT ![t] = [u EXCEPT !.pc = "TableFailed", !.err = kind]]
    /\ IF Parallel
       THEN /\ done_order' = Append(done_order, t)
            /\ UNCHANGED <<run, raised>>
       ELSE /\ run' = "Aborted"
            /\ raised' = [table |-> t, err |-> kind, queued |-> {}]
            /\ UNCHANGED done_order

\* an output table that is created only for a table that has rows
CreateOutputTableIfRows(t) ==
    /\ unit[t].pc = "Started"
    /\ LET got == GetTableInfo(table_info_cache, t) IN
        /\ table_info_cache' = got.cache
        /\ dst' = IF got.info.row_count = 0 THEN dst
                  ELSE CreateTableIfNotExists(dst, got.info)
    /\ unit' = [unit EXCEPT ![t].pc = "Streaming"]
    /\ UNCHANGED <<source, cfg, stats, anonymization_stats, run, raised, submitted,
                   done_order, as_completed, observed, calls, read_log, write_log,
                   last_write, run_no, previous, worker, info_log, client>>

\* get_table_info (a cache hit after Discover) and create_output_table
CreateOutputTable(t) ==
    /\ unit[t].pc = "Started"
    /\ LET got == GetTableInfo(table_info_cache, t) IN
        /\ table_info_cache' = got.cache
        /\ dst' = CreateTableIfNotExists(dst, got.info)
    /\ unit' = [unit EXCEPT ![t].pc = "Streaming"]
    /\ UNCHANGED <<source, cfg, stats, anonymization_stats, run, raised, submitted,
                   done_order, as_completed, observed, calls, read_log, write_log,
                   last_write, run_no, previous, worker, info_log, client>>

\* an offset that advances one row too far
NextOffsetSkipping(u) ==
    IF u.batch # <<>> THEN u.offset + cfg.batch_size + 1 ELSE u.offset

\* offset of the next query of stream_table_rows: the generator adds
\* batch_size when it is resumed after a yield
NextOffset(u) == IF u.batch # <<>> THEN u.offset + cfg.batch_size ELSE u.offset

\* a generator that stops after any batch, full or short
StreamExhaustedAfterAnyBatch(u) == u.batch # <<>> /\ Len(u.batch) <= cfg.batch_size

\* the generator stops without another query after a short batch
StreamExhausted(u) == u.batch # <<>> /\ Len(u.batch) < cfg.batch_size

\* stream_table_rows yields the next batch to the loop of process_table
StreamYield(t) ==
    /\ unit[t].pc = "Streaming"
    /\ unit[t].todo = <<>>
    /\ ~StreamExhausted(unit[t])
    /\ LET u == unit[t]
           batch == SelectLimitOffset(source.db, t, cfg.batch_size, NextOffset(u))
       IN  /\ batch # <<>>
           /\ unit' = [unit EXCEPT ![t] =
                          [u EXCEPT !.pc = "Transforming", !.offset = NextOffset(u),
                                    !.batch = batch, !.processed_batch = <<>>,
                                    !.ri = 1, !.ci = 1, !.processed_row = <<>>,
                                    !.processed_list = <<>>,
                                    !.row_was_anonymized = FALSE]]
           /\ read_log' = [read_log EXCEPT ![t] = Append(@, batch)]
    /\ UNCHANGED <<source, cfg, dst, stats, anonymization_stats, table_info_cache, run,
                   raised, submitted, done_order, as_completed, observed, calls,
                   write_log, last_write, run_no, previous, worker, info_log, client>>

\* stream_table_rows ends; process_table leaves its loop and is about to
\* count the table
StreamEnd(t) ==
    /\ unit[t].pc = "Streaming"
    /\ unit[t].todo = <<>>
    /\ LET u == unit[t] IN
        /\ \/ StreamExhausted(u)
           \/ SelectLimitOffset(source.db, t, cfg.batch_size, NextOffset(u)) = <<>>
        /\ unit' = [unit EXCEPT ![t] =
                       [u EXCEPT !.pc = "Finishing", !.offset = NextOffset(u),
                                 !.todo = <<Increment("processed_tables", "", 1)>>]]
    /\ UNCHANGED <<source, cfg, dst, stats, anonymization_stats, table_info_cache, run,
                   raised, submitted, done_order, as_completed, observed, calls,
                   read_log, write_log, last_write, run_no, previous, worker, info_log, client>>

\* row_processor when anonymization is disabled: the rows as they are
TransformPassthrough(t) ==
    /\ unit[t].pc = "Transforming"
    /\ ~cfg.enabled
    /\ unit' = [unit EXCEPT ![t].pc = "Writing", ![t].processed_batch = unit[t].batch]
    /\ UNCHANGED <<source, cfg, dst, stats, anonymization_stats, table_info_cache, run,
                   raised, submitted, done_order, as_completed, observed, calls,
                   read_log, write_log, last_write, run_no, previous, worker, info_log, client>>

\* the calls one _anonymize_value makes to the capability
CallsOf(column_name, value, out) ==
    (IF out.analyze_called
     THEN <<[op |-> "analyze", column |-> column_name, text |-> Str(value),
             spans |-> <<>>, ok |-> ~AnalyzeRaises(Str(value))]>>
     ELSE <<>>)
    \o (IF out.anonymize_called
        THEN <<[op |-> "anonymize", column |-> column_name, text |-> Str(value),
                spans |-> out.retained, ok |-> ~out.failed]>>
        ELSE <<>>)

\* the counter updates with the anonymized count taken when anonymize was
\* called, whether it returned or raised
IncrementsOfCalled(out) ==
    (IF out.was_anonymized
     THEN [i \in 1..Len(out.retained) |->
              Increment("entities_found", out.retained[i].entity_type, 1)]
     ELSE <<>>)
    \o (IF out.anonymize_called
        THEN <<Increment("total_values_anonymized", "", 1)>> ELSE <<>>)
    \o <<Increment("total_values_processed", "", 1)>>

\* the counter updates of one processed value, in program order
IncrementsOf(out) ==
    (IF out.was_anonymized
     THEN [i \in 1..Len(out.retained) |->
              Increment("entities_found", out.retained[i].entity_type, 1)]
     ELSE <<>>)
    \o (IF out.was_anonymized
        THEN <<Increment("total_values_anonymized", "", 1)>> ELSE <<>>)
    \o <<Increment("total_values_processed", "", 1)>>

\* an append that leaves NULL values out of the row
AppendValueUnlessNull(processed_row, value) ==
    IF value.ty = "null" THEN processed_row ELSE Append(processed_row, value)

\* processed_row.append(value)
AppendValue(processed_row, value) == Append(processed_row, value)

\* processed_rows.insert(0, tuple(processed_row))
PrependRow(processed_list, processed_row) == <<processed_row>> \o processed_list

\* processed_rows.append(tuple(processed_row))
AppendRow(processed_list, processed_row) == Append(processed_list, processed_row)

\* _process_row_batch: one value of the current row
TransformValue(t) ==
    /\ unit[t].pc = "Transforming"
    /\ cfg.enabled
    /\ unit[t].todo = <<>>
    /\ unit[t].ri <= Len(unit[t].batch)
    /\ unit[t].ci <= Len(unit[t].batch[unit[t].ri])
    /\ LET u == unit[t]
           table_info == table_info_cache[t]
           value == u.batch[u.ri][u.ci]
       IN  IF u.ci > Len(table_info.columns)
           THEN /\ UnitFails(t, u, "IndexError")
                /\ UNCHANGED calls
           ELSE
           LET column_name == table_info.columns[u.ci]
               column_type == table_info.column_types[column_name]
           IN  IF ShouldProcessColumn(cfg.table_configs, t, column_name, column_type)
               THEN LET out == AnonymizeValue(cfg.table_configs, value, t, column_name)
                    IN  /\ unit' = [unit EXCEPT ![t] =
                               [u EXCEPT !.processed_row = AppendValue(@, out.value),
                                         !.row_was_anonymized = @ \/ out.was_anonymized,
                                         !.ci = @ + 1,
                                         !.todo = IncrementsOf(out)]]
                        /\ calls' = [calls EXCEPT ![t] = @ \o CallsOf(column_name, value, out)]
                        /\ UNCHANGED <<run, raised, done_order>>
               ELSE /\ unit' = [unit EXCEPT ![t] =
                               [u EXCEPT !.processed_row = AppendValue(@, value),
                                         !.ci = @ + 1]]
                    /\ UNCHANGED <<calls, run, raised, done_order>>
    /\ UNCHANGED <<source, cfg, dst, stats, anonymization_stats, table_info_cache,
                   submitted, as_completed, observed, read_log, write_log,
                   last_write, run_no, previous, worker, info_log, client>>

\* an end of row that counts every row as anonymized
EndRowCountingEveryRow(t) ==
    /\ unit[t].pc = "Transforming"
    /\ cfg.enabled
    /\ unit[t].todo = <<>>
    /\ unit[t].ri <= Len(unit[t].batch)
    /\ unit[t].ci > Len(unit[t].batch[unit[t].ri])
    /\ LET u == unit[t] IN
        unit' = [unit EXCEPT ![t] =
                    [u EXCEPT !.processed_list = AppendRow(@, u.processed_row),
                              !.processed_row = <<>>,
                              !.row_was_anonymized = FALSE,
                              !.ri = @ + 1, !.ci = 1,
                              !.todo = <<Increment("anonymized_rows", "", 1)>>]]
    /\ anonymization_stats' =
            [anonymization_stats EXCEPT !.tables_processed[t] = @ + 1]
    /\ UNCHANGED <<source, cfg, dst, stats, table_info_cache, run,
                   raised, submitted, done_order, as_completed, observed, calls,
                   read_log, write_log, last_write, run_no, previous, worker, info_log, client>>

\* _process_row_batch: the row is complete.  tables_processed[table] is
\* touched by the one unit of its table only, so its update is one step
EndRow(t) ==
    /\ unit[t].pc = "Transforming"
    /\ cfg.enabled
    /\ unit[t].todo = <<>>
    /\ unit[t].ri <= Len(unit[t].batch)
    /\ unit[t].ci > Len(unit[t].batch[unit[t].ri])
    /\ LET u == unit[t] IN
        unit' = [unit EXCEPT ![t] =
                    [u EXCEPT !.processed_list = AppendRow(@, u.processed_row),
                              !.processed_row = <<>>,
                              !.row_was_anonymized = FALSE,
                              !.ri = @ + 1, !.ci = 1,
                              !.todo = IF u.row_was_anonymized
                                       THEN <<Increment("anonymized_rows", "", 1)>>
                                       ELSE <<>>]]
    /\ anonymization_stats' =
            [anonymization_stats EXCEPT !.tables_processed[t] = @ + 1]
    /\ UNCHANGED <<source, cfg, dst, stats, table_info_cache, run,
                   raised, submitted, done_order, as_completed, observed, calls,
                   read_log, write_log, last_write, run_no, previous, worker, info_log, client>>

\* _process_row_batch returns the processed rows
TransformReturn(t) ==
    /\ unit[t].pc = "Transforming"
    /\ cfg.enabled
    /\ unit[t].todo = <<>>
    /\ unit[t].ri > Len(unit[t].batch)
    /\ unit' = [unit EXCEPT ![t].pc = "Writing",
                            ![t].processed_batch = unit[t].processed_list]
    /\ UNCHANGED <<source, cfg, dst, stats, anonymization_stats, table_info_cache, run,
                   raised, submitted, done_order, as_completed, observed, calls,
                   read_log, write_log, last_write, run_no, previous, worker, info_log, client>>

\* what an insert_batch call leaves behind for inspection
WriteRecord(t, rows, res) ==
    [table |-> t, rows |-> rows, err |-> res.err, executed |-> res.executed,
     before |-> IF HasTable(dst, t) THEN dst[t].rows ELSE <<>>,
     existed |-> HasTable(dst, t)]

\* insert_batch on the processed batch, then the local row count; the
\* update of stats.processed_rows is left to the next steps
InsertBatchStep(t) ==
    /\ unit[t].pc = "Writing"
    /\ LET u == unit[t]
           res == InsertBatch(dst, t, u.processed_batch, table_info_cache[t])
       IN  /\ last_write' = WriteRecord(t, u.processed_batch, res)
           /\ dst' = res.db
           /\ IF res.err = "none"
              THEN /\ write_log' = [write_log EXCEPT ![t] = Append(@, u.processed_batch)]
                   /\ unit' = [unit EXCEPT ![t] =
                                  [u EXCEPT !.pc = "Streaming",
                                            !.processed_rows = @ + Len(u.batch),
                                            !.todo = <<Increment("processed_rows", "",
                                                                 Len(u.batch))>>]]
                   /\ UNCHANGED <<run, raised, done_order>>
              ELSE /\ UnitFails(t, u, res.err)
                   /\ UNCHANGED write_log
    /\ UNCHANGED <<source, cfg, stats, anonymization_stats, table_info_cache, submitted,
                   as_completed, observed, calls, read_log, run_no, previous, worker, info_log, client>>

\* a failure that takes the rows of its table out of the output file
StoreFailureRollingBack(t) ==
    /\ unit[t].pc = "Writing"
    /\ UnitFails(t, unit[t], "OperationalError")
    /\ dst' = IF HasTable(dst, t) THEN [dst EXCEPT ![t].rows = <<>>] ELSE dst
    /\ UNCHANGED <<source, cfg, stats, anonymization_stats, table_info_cache,
                   submitted, as_completed, observed, calls, read_log, write_log,
                   last_write, run_no, previous, worker, info_log, client>>

\* the output file cannot be written (locked by another connection for
\* longer than the busy timeout, disk full): sqlite3 raises in insert_batch
StoreFailure(t) ==
    /\ unit[t].pc = "Writing"
    /\ UnitFails(t, unit[t], "OperationalError")
    /\ UNCHANGED <<source, cfg, dst, stats, anonymization_stats, table_info_cache,
                   submitted, as_completed, observed, calls, read_log, write_log,
                   last_write, run_no, previous, worker, info_log, client>>

\* the current value of a shared counter
ReadCounter(item) ==
    CASE item.ctr = "processed_rows" -> stats.processed_rows
      [] item.ctr = "processed_tables" -> stats.processed_tables
      [] item.ctr = "anonymized_rows" -> stats.anonymized_rows
      [] item.ctr = "total_values_processed" ->
            anonymization_stats.total_values_processed
      [] item.ctr = "total_values_anonymized" ->
            anonymization_stats.total_values_anonymized
      [] OTHER -> anonymization_stats.entities_found[item.key]

StoreStats(item, value) ==
    CASE item.ctr = "processed_rows" -> [stats EXCEPT !.processed_rows = value]
      [] item.ctr = "processed_tables" -> [stats EXCEPT !.processed_tables = value]
      [] item.ctr = "anonymized_rows" -> [stats EXCEPT !.anonymized_rows = value]
      [] OTHER -> stats

StoreAnonymizationStats(item, value) ==
    CASE item.ctr = "total_values_processed" ->
            [anonymization_stats EXCEPT !.total_values_processed = value]
      [] item.ctr = "total_values_anonymized" ->
            [anonymization_stats EXCEPT !.total_values_anonymized = value]
      [] item.ctr = "entities_found" ->
            [anonymization_stats EXCEPT !.entities_found[item.key] = value]
      [] OTHER -> anonymization_stats

\* counter += n, first half: the attribute is loaded.  No lock is held, so
\* other units may run before the sum is stored
IncRead(t) ==
    /\ Executing(t)
    /\ unit[t].todo # <<>>
    /\ unit[t].loaded = -1
    /\ unit' = [unit EXCEPT ![t].loaded = ReadCounter(Head(unit[t].todo))]
    /\ UNCHANGED <<source, cfg, dst, stats, anonymization_stats, table_info_cache, run,
                   raised, submitted, done_order, as_completed, observed, calls,
                   read_log, write_log, last_write, run_no, previous, worker, info_log, client>>

\* counter += n, second half: the sum of the loaded value and n is stored
IncWrite(t) ==
    /\ Executing(t)
    /\ unit[t].todo # <<>>
    /\ unit[t].loaded # -1
    /\ LET item == Head(unit[t].todo) IN
        /\ stats' = StoreStats(item, unit[t].loaded + item.by)
        /\ anonymization_stats' = StoreAnonymizationStats(item, unit[t].loaded + item.by)
    /\ unit' = [unit EXCEPT ![t].todo = Tail(@), ![t].loaded = -1]
    /\ UNCHANGED <<source, cfg, dst, table_info_cache, run, raised, submitted,
                   done_order, as_completed, observed, calls, read_log, write_log,
                   last_write, run_no, previous, worker, info_log, client>>

\* process_table returns
FinishTable(t) ==
    /\ unit[t].pc = "Finishing"
    /\ unit[t].todo = <<>>
    /\ unit' = [unit EXCEPT ![t].pc = "TableDone"]
    /\ done_order' = IF Parallel THEN Append(done_order, t) ELSE done_order
    /\ UNCHANGED <<source, cfg, dst, stats, anonymization_stats, table_info_cache, run,
                   raised, submitted, as_completed, observed, calls, read_log,
                   write_log, last_write, run_no, previous, worker, info_log, client>>

(***************************************************************************)
(* process_database, second part: the table units one after another        *)
(* (_process_tables_sequential) ...                                        *)
(***************************************************************************)
\* a loop that logs the error of a unit and goes on with the next table
SequentialCallAfterFailure(t) ==
    /\ ~Parallel
    /\ run \in {"TableListed", "Sequential", "Aborted"}
    /\ \E k \in 1..Len(Listing) :
        /\ Listing[k] = t
        /\ unit[t].pc = "NotStarted"
        /\ \A j \in 1..(k - 1) : Terminal(Listing[j])
    /\ unit' = [unit EXCEPT ![t].pc = "Started"]
    /\ run' = "Sequential"
    /\ UNCHANGED <<source, cfg, dst, stats, anonymization_stats, table_info_cache,
                   raised, submitted, done_order, as_completed, observed, calls,
                   read_log, write_log, last_write, run_no, previous, worker, info_log, client>>

\* the next table of the listing is handed to process_table
SequentialCall(t) ==
    /\ ~Parallel
    /\ run \in {"TableListed", "Sequential"}
    /\ \E k \in 1..Len(Listing) :
        /\ Listing[k] = t
        /\ unit[t].pc = "NotStarted"
        /\ \A j \in 1..(k - 1) : unit[Listing[j]].pc = "TableDone"
    /\ unit' = [unit EXCEPT ![t].pc = "Started"]
    /\ run' = "Sequential"
    /\ UNCHANGED <<source, cfg, dst, stats, anonymization_stats, table_info_cache,
                   raised, submitted, done_order, as_completed, observed, calls,
                   read_log, write_log, last_write, run_no, previous, worker, info_log, client>>

\* the loop over the tables is over; process_database returns its stats
SequentialReturn ==
    /\ ~Parallel
    /\ run \in {"TableListed", "Sequential"}
    /\ \A t \in Tables : unit[t].pc = "TableDone"
    /\ run' = "Completed"
    /\ stats' = [stats EXCEPT !.ended = TRUE]
    /\ UNCHANGED <<source, cfg, dst, anonymization_stats, table_info_cache, raised,
                   unit, submitted, done_order, as_completed, observed, calls,
                   read_log, write_log, last_write, run_no, previous, worker, info_log, client>>

(***************************************************************************)
(* ... or on a ThreadPoolExecutor (_process_tables_parallel).              *)
(***************************************************************************)
\* executor.submit(self.process_table, table_name, ...), in listing order
Submit(t) ==
    /\ Parallel
    /\ run \in {"TableListed", "Submitting"}
    /\ submitted < Len(Listing)
    /\ t = Listing[submitted + 1]
    /\ unit' = [unit EXCEPT ![t].pc = "Queued"]
    /\ submitted' = submitted + 1
    /\ run' = "Submitting"
    /\ UNCHANGED <<source, cfg, dst, stats, anonymization_stats, table_info_cache,
                   raised, done_order, as_completed, observed, calls, read_log,
                   write_log, last_write, run_no, previous, worker, info_log, client>>

\* a pool that starts a thread for every work item
WorkerStartUnbounded(t) ==
    /\ unit[t].pc = "Queued"
    /\ unit' = [unit EXCEPT ![t].pc = "Started"]
    /\ UNCHANGED <<source, cfg, dst, stats, anonymization_stats, table_info_cache, run,
                   raised, submitted, done_order, as_completed, observed, calls,
                   read_log, write_log, last_write, run_no, previous, worker, info_log, client>>

\* a free worker thread takes the oldest queued work item
WorkerStart(t) ==
    /\ unit[t].pc = "Queued"
    /\ Cardinality({x \in Tables : Executing(x)}) < cfg.num_workers
    /\ \E k \in 1..Len(Listing) :
        /\ Listing[k] = t
        /\ \A j \in 1..(k - 1) : unit[Listing[j]].pc # "Queued"
    /\ unit' = [unit EXCEPT ![t].pc = "Started"]
    /\ UNCHANGED <<source, cfg, dst, stats, anonymization_stats, table_info_cache, run,
                   raised, submitted, done_order, as_completed, observed, calls,
                   read_log, write_log, last_write, run_no, previous, worker, info_log, client>>

\* as_completed(future_to_table) is entered: the futures already finished
\* are collected in a set, the others will be reported as they finish
AsCompletedCall ==
    /\ run = "Submitting"
    /\ submitted = Len(Listing)
    /\ as_completed' = [called |-> TRUE, finished |-> {t \in Tables : Terminal(t)}]
    /\ run' = "Waiting"
    /\ UNCHANGED <<source, cfg, dst, stats, anonymization_stats, table_info_cache,
                   raised, unit, submitted, done_order, observed, calls, read_log,
                   write_log, last_write, run_no, previous, worker, info_log, client>>

\* the future as_completed yields next: any of those finished at its call
\* (a set is iterated), then the others in the order they finish
YieldsNext(t) ==
    /\ Terminal(t)
    /\ t \notin Range(observed)
    /\ \/ t \in as_completed.finished
       \/ /\ as_completed.finished \subseteq Range(observed)
          /\ \E k \in 1..Len(done_order) :
                /\ done_order[k] = t
                /\ \A j \in 1..(k - 1) :
                      done_order[j] \in Range(observed)

\* future.result() returns: the table is logged as processed
ObserveDone(t) ==
    /\ run = "Waiting"
    /\ YieldsNext(t)
    /\ unit[t].pc = "TableDone"
    /\ observed' = Append(observed, t)
    /\ UNCHANGED <<source, cfg, dst, stats, anonymization_stats, table_info_cache, run,
                   raised, unit, submitted, done_order, as_completed, calls,
                   read_log, write_log, last_write, run_no, previous, worker, info_log, client>>

\* an except clause that logs the error and goes on to the next future
ObserveFailedAndGoOn(t) ==
    /\ run = "Waiting"
    /\ YieldsNext(t)
    /\ unit[t].pc = "TableFailed"
    /\ observed' = Append(observed, t)
    /\ UNCHANGED <<source, cfg, dst, stats, anonymization_stats, table_info_cache, run,
                   raised, unit, submitted, done_order, as_completed, calls,
                   read_log, write_log, last_write, run_no, previous, worker, info_log, client>>

\* future.result() raises the exception of the unit; it is raised again and
\* leaves the with block, whose exit is executor.shutdown(wait=True)
ObserveFailed(t) ==
    /\ run = "Waiting"
    /\ YieldsNext(t)
    /\ unit[t].pc = "TableFailed"
    /\ observed' = Append(observed, t)
    /\ raised' = [table |-> t, err |-> unit[t].err,
                  queued |-> {x \in Tables : unit[x].pc = "Queued"}]
    /\ run' = "Joining"
    /\ UNCHANGED <<source, cfg, dst, stats, anonymization_stats, table_info_cache,
                   unit, submitted, done_order, as_completed, calls, read_log,
                   write_log, last_write, run_no, previous, worker, info_log, client>>

\* shutdown(wait=False): the exception leaves at once
ShutdownWithoutWaiting ==
    /\ run = "Joining"
    /\ run' = "Aborted"
    /\ UNCHANGED <<source, cfg, dst, stats, anonymization_stats, table_info_cache,
                   raised, unit, submitted, done_order, as_completed, observed,
                   calls, read_log, write_log, last_write, run_no, previous, worker, info_log, client>>

\* shutdown(wait=True) returns once every worker thread has ended, that is
\* when the queue is drained; then the exception leaves process_database
ShutdownRaise ==
    /\ run = "Joining"
    /\ \A t \in Tables : Terminal(t)
    /\ run' = "Aborted"
    /\ UNCHANGED <<source, cfg, dst, stats, anonymization_stats, table_info_cache,
                   raised, unit, submitted, done_order, as_completed, observed,
                   calls, read_log, write_log, last_write, run_no, previous, worker, info_log, client>>

\* a coordinator that returns its stats without iterating as_completed and
\* with shutdown(wait=False)
ParallelReturnWithoutWaiting ==
    /\ run = "Waiting"
    /\ run' = "Completed"
    /\ stats' = [stats EXCEPT !.ended = TRUE]
    /\ UNCHANGED <<source, cfg, dst, anonymization_stats, table_info_cache, raised,
                   unit, submitted, done_order, as_completed, observed, calls,
                   read_log, write_log, last_write, run_no, previous, worker, info_log, client>>

\* every future was yielded without an exception: the with block is left
\* and process_database returns its stats
ParallelReturn ==
    /\ run = "Waiting"
    /\ Range(observed) = Tables
    /\ run' = "Completed"
    /\ stats' = [stats EXCEPT !.ended = TRUE]
    /\ UNCHANGED <<source, cfg, dst, anonymization_stats, table_info_cache, raised,
                   unit, submitted, done_order, as_completed, observed, calls,
                   read_log, write_log, last_write, run_no, previous, worker, info_log, client>>

(***************************************************************************)
(* The worker is started again on the same input and output files: a new   *)
(* processor and a new pipeline are constructed, the output file is kept.  *)
(***************************************************************************)
NewRun ==
    /\ run \in {"Completed", "Aborted"}
    /\ run_no < MaxRuns
    /\ run_no' = run_no + 1
    /\ previous' = [run |-> run, dst |-> dst]
    /\ stats' = NewStats
    /\ anonymization_stats' = NewAnonymizationStats
    /\ table_info_cache' = NoTableInfo
    /\ run' = "NotStarted"
    /\ raised' = NoError
    /\ unit' = [t \in Tables |-> NewUnit]
    /\ submitted' = 0
    /\ done_order' = <<>>
    /\ as_completed' = [called |-> FALSE, finished |-> {}]
    /\ observed' = <<>>
    /\ calls' = [t \in Tables |-> <<>>]
    /\ read_log' = [t \in Tables |-> <<>>]
    /\ write_log' = [t \in Tables |-> <<>>]
    /\ last_write' = NoWrite
    /\ UNCHANGED <<source, cfg, dst, worker, info_log, client>>

Next ==
    \/ Discover
    \/ \E t \in Tables : SequentialCall(t)
    \/ SequentialReturn
    \/ \E t \in Tables : Submit(t)
    \/ \E t \in Tables : WorkerStart(t)
    \/ AsCompletedCall
    \/ \E t \in Tables : ObserveDone(t)
    \/ \E t \in Tables : ObserveFailed(t)
    \/ ShutdownRaise
    \/ ParallelReturn
    \/ \E t \in Tables : CreateOutputTable(t)
    \/ \E t \in Tables : StreamYield(t)
    \/ \E t \in Tables : StreamEnd(t)
    \/ \E t \in Tables : TransformPassthrough(t)
    \/ \E t \in Tables : TransformValue(t)
    \/ \E t \in Tables : EndRow(t)
    \/ \E t \in Tables : TransformReturn(t)
    \/ \E t \in Tables : InsertBatchStep(t)
    \/ \E t \in Tables : StoreFailure(t)
    \/ \E t \in Tables : IncRead(t)
    \/ \E t \in Tables : IncWrite(t)
    \/ \E t \in Tables : FinishTable(t)

Spec == Init /\ [][Next]_vars

(***************************************************************************)
(* Runs on a table without a primary key whose columns and cell values     *)
(* meet every branch of the column policy: an INTEGER column with numbers  *)
(* and, in one row, a text that SQLite cannot convert and stores as it is, *)
(* a column of a parameterised type, an identifier-shaped name in upper    *)
(* case, short and padded texts, and policies of every kind.               *)
(***************************************************************************)
PeopleRows ==
    { <<IntV(12), TextSsn, TextSsn, TextSsn>>,
      <<IntV(7), TextMail, TextClean, TextMail>>,
      <<Null, TextBang, TextBang, TextBang>>,
      <<IntV(12), TextHash, Null, TextSsn>>,
      <<IntV(7), TextPad, TextMail, TextClean>>,
      <<IntV(12), TextBoth, TextBoth, Null>>,
      <<TextSsn, TextBoth, TextClean, TextSsn>> }

PeopleSources ==
    {[listing |-> <<"people">>, db |-> ("people" :> Table("people", rows))] :
        rows \in UNION {[1..n -> PeopleRows] : n \in 0..MaxRows}}

\* table_configs for people: the table disabled with a column enabled; a
\* column disabled; a column restricted to one entity type, another to a
\* confidence; a confidence equal to a score; an entry under a name of
\* other case and an entry for a column of a type that is not processed
PeopleConfigs ==
    { ("people" :> TableConfig(FALSE, (ColEmail :> ColumnConfig(TRUE, {}, 0)))),
      ("people" :> TableConfig(TRUE, (ColEmail :> ColumnConfig(FALSE, {}, 0)))),
      ("people" :> TableConfig(TRUE, (ColEmail :> ColumnConfig(TRUE, {"US_SSN"}, 0)
                                      @@ ColAge :> ColumnConfig(TRUE, {}, 85)))),
      ("people" :> TableConfig(TRUE, (ColEmail :> ColumnConfig(TRUE, {}, 85)))),
      ("people" :> TableConfig(TRUE, (ColEmailLower :> ColumnConfig(FALSE, {}, 0)
                                      @@ ColNick :> ColumnConfig(TRUE, {}, 0)))),
      ("users" :> TableConfig(FALSE, NoColumns)) }

TransformInputs ==
    {[source |-> s, cfg |-> Config(b, FALSE, 1, TRUE, NoTableConfigs), dst |-> EmptyDb] :
        s \in PeopleSources, b \in 1..MaxBatch}
    \cup
    {[source |-> s, cfg |-> Config(MaxBatch, FALSE, 1, TRUE, tc), dst |-> EmptyDb] :
        s \in PeopleSources, tc \in PeopleConfigs}
    \cup
    {[source |-> s, cfg |-> Config(1, FALSE, 1, FALSE, NoTableConfigs), dst |-> EmptyDb] :
        s \in {x \in PeopleSources : Len(x.db["people"].rows) <= 1}}

InitTransform ==
    \E input \in TransformInputs :
        /\ FreshRun(input)
        /\ client = NoClient
        /\ dst = input.dst
        /\ run_no = 1
        /\ previous = NoRun
        /\ worker = NoWorker

\* process_database with parallel processing off
NextTransform ==
    \/ Discover
    \/ \E t \in Tables : SequentialCall(t)
    \/ SequentialReturn
    \/ \E t \in Tables : CreateOutputTable(t)
    \/ \E t \in Tables : StreamYield(t)
    \/ \E t \in Tables : StreamEnd(t)
    \/ \E t \in Tables : TransformPassthrough(t)
    \/ \E t \in Tables : TransformValue(t)
    \/ \E t \in Tables : EndRow(t)
    \/ \E t \in Tables : TransformReturn(t)
    \/ \E t \in Tables : InsertBatchStep(t)
    \/ \E t \in Tables : StoreFailure(t)
    \/ \E t \in Tables : IncRead(t)
    \/ \E t \in Tables : IncWrite(t)
    \/ \E t \in Tables : FinishTable(t)

SpecTransform == InitTransform /\ [][NextTransform]_vars

NextRerun ==
    \/ Next
    \/ NewRun

SpecRerun == Init /\ [][NextRerun]_vars

(***************************************************************************)
(* The writer called on its own: get_table_info, create_output_table and   *)
(* insert_batch are public methods; a caller may hand insert_batch any     *)
(* list of tuples.                                                         *)
(***************************************************************************)
\* rows a caller may pass: rows of the source table, the same one value
\* short, the same with one value more
\* a row as it is, a value short, a value long
RowVariants(r) == {r, SubSeq(r, 1, Len(r) - 1), Append(r, Null)}

\* the batches handed to insert_batch: at most MaxBatch rows of the source
\* table in table order, rows repeated or left out, at most one of them of
\* another width
Batches(t) ==
    LET rows == source.db[t].rows
        Picks == UNION {{p \in [1..n -> 1..Len(rows)] :
                            \A k \in 1..(n - 1) : p[k] <= p[k + 1]} : n \in 1..MaxBatch}
        Whole(p) == [k \in 1..Len(p) |-> rows[p[k]]]
    IN  {<<>>} \cup
        UNION {UNION {{[Whole(p) EXCEPT ![k] = v] : v \in RowVariants(rows[p[k]])} :
                         k \in 1..Len(p)} : p \in Picks}

WriterInputs ==
    {[source |-> s, cfg |-> Config(MaxBatch, FALSE, 1, FALSE, NoTableConfigs),
      dst |-> EmptyDb] :
        s \in {u \in UsersSources : Len(u.db["users"].rows) <= 1}
              \cup {o \in OneTableSources :
                       \A t \in DOMAIN o.db : Len(o.db[t].rows) <= MaxRows}}

InitWriter ==
    \E input \in WriterInputs :
        /\ FreshRun(input)
        /\ client = NoClient
        /\ dst = input.dst
        /\ run_no = 1
        /\ previous = NoRun
        /\ worker = NoWorker

\* processor.get_table_info(t)
WriterGetTableInfo(t) ==
    /\ t \notin DOMAIN table_info_cache
    /\ table_info_cache' = GetTableInfo(table_info_cache, t).cache
    /\ UNCHANGED <<source, cfg, dst, stats, anonymization_stats, run, raised, unit,
                   submitted, done_order, as_completed, observed, calls, read_log,
                   write_log, last_write, run_no, previous, worker, info_log, client>>

\* processor.create_output_table(table_info)
WriterCreateOutputTable(t) ==
    /\ t \in DOMAIN table_info_cache
    /\ ~HasTable(dst, t)
    /\ dst' = CreateTableIfNotExists(dst, table_info_cache[t])
    /\ UNCHANGED <<source, cfg, stats, anonymization_stats, table_info_cache, run,
                   raised, unit, submitted, done_order, as_completed, observed,
                   calls, read_log, write_log, last_write, run_no, previous, worker, info_log, client>>

\* processor.insert_batch(t, rows, table_info)
WriterInsertBatch(t, rows) ==
    /\ t \in DOMAIN table_info_cache
    /\ HasTable(dst, t) => Len(dst[t].rows) + Len(rows) <= MaxRows + 1
    /\ LET res == InsertBatch(dst, t, rows, table_info_cache[t]) IN
        /\ last_write' = WriteRecord(t, rows, res)
        /\ dst' = res.db
    /\ UNCHANGED <<source, cfg, stats, anonymization_stats, table_info_cache, run,
                   raised, unit, submitted, done_order, as_completed, observed,
                   calls, read_log, write_log, run_no, previous, worker, info_log, client>>

NextWriter ==
    \/ \E t \in Tables : WriterGetTableInfo(t)
    \/ \E t \in Tables : WriterCreateOutputTable(t)
    \/ \E t \in Tables : \E rows \in Batches(t) : WriterInsertBatch(t, rows)

SpecWriter == InitWriter /\ [][NextWriter]_vars

(***************************************************************************)
(* get_table_info called on a processor whose input file other programs    *)
(* change between the calls: rows are inserted, tables are dropped.        *)
(***************************************************************************)
\* a get_table_info that queries the file on every call
TableInfoCallUncached(cache, t) ==
    IF ~HasTable(source.db, t)
    THEN [err |-> "OperationalError", info |-> <<>>, cache |-> cache, queried |-> TRUE]
    ELSE [err |-> "none", info |-> BuildTableInfo(source.db, t),
          cache |-> [x \in DOMAIN cache \cup {t} |->
                        IF x = t THEN BuildTableInfo(source.db, t) ELSE cache[x]],
          queried |-> TRUE]

\* a get_table_info that takes the empty answer of PRAGMA table_info for a
\* table without columns or rows
TableInfoCallLenient(cache, t) ==
    IF t \in DOMAIN cache
    THEN [err |-> "none", info |-> cache[t], cache |-> cache, queried |-> FALSE]
    ELSE LET info == IF HasTable(source.db, t) THEN BuildTableInfo(source.db, t)
                     ELSE [name |-> t, columns |-> <<>>,
                           column_types |-> [c \in {} |-> <<>>],
                           row_count |-> 0, primary_key |-> NoName]
         IN  [err |-> "none", info |-> info,
              cache |-> [x \in DOMAIN cache \cup {t} |->
                            IF x = t THEN info ELSE cache[x]],
              queried |-> TRUE]

\* get_table_info(table_name): the cached descriptor if there is one;
\* otherwise PRAGMA table_info, which answers with no rows for a missing
\* table, then SELECT COUNT(*), which raises sqlite3.OperationalError (no
\* such table) before anything is cached
TableInfoCall(cache, t) ==
    IF t \in DOMAIN cache
    THEN [err |-> "none", info |-> cache[t], cache |-> cache, queried |-> FALSE]
    ELSE IF ~HasTable(source.db, t)
    THEN [err |-> "OperationalError", info |-> <<>>, cache |-> cache, queried |-> TRUE]
    ELSE [err |-> "none", info |-> GetTableInfo(cache, t).info,
          cache |-> GetTableInfo(cache, t).cache, queried |-> TRUE]

\* one call, logged with what the file holds at the time of the call
CatalogGetTableInfo(t) ==
    /\ Len(info_log) < MaxCalls
    /\ LET res == TableInfoCall(table_info_cache, t) IN
        /\ table_info_cache' = res.cache
        /\ info_log' = Append(info_log,
                              [table |-> t, err |-> res.err, info |-> res.info,
                               queried |-> res.queried,
                               exists |-> HasTable(source.db, t),
                               row_count |-> IF HasTable(source.db, t)
                                             THEN Len(source.db[t].rows) ELSE 0])
    /\ UNCHANGED <<source, cfg, dst, stats, anonymization_stats, run, raised, unit,
                   submitted, done_order, as_completed, observed, calls, read_log,
                   write_log, last_write, run_no, previous, worker, client>>

\* another program inserts a row into a table of the input file
SourceInsert(t) ==
    /\ HasTable(source.db, t)
    /\ Len(source.db[t].rows) < MaxRows
    /\ source' = [source EXCEPT !.db[t].rows = Append(@, [i \in 1..Len(source.db[t].cols) |-> Null])]
    /\ UNCHANGED <<cfg, dst, stats, anonymization_stats, table_info_cache, run, raised,
                   unit, submitted, done_order, as_completed, observed, calls,
                   read_log, write_log, last_write, run_no, previous, worker,
                   info_log, client>>

\* another program drops a table of the input file
SourceDropTable(t) ==
    /\ HasTable(source.db, t)
    /\ source' = [listing |-> SelectSeq(source.listing, LAMBDA x : x # t),
                  db |-> [x \in DOMAIN source.db \ {t} |-> source.db[x]]]
    /\ UNCHANGED <<cfg, dst, stats, anonymization_stats, table_info_cache, run, raised,
                   unit, submitted, done_order, as_completed, observed, calls,
                   read_log, write_log, last_write, run_no, previous, worker,
                   info_log, client>>

CatalogInputs ==
    {[source |-> s, cfg |-> Config(1, FALSE, 1, FALSE, NoTableConfigs), dst |-> EmptyDb] :
        s \in TwoTableSources}

\* the names get_table_info is called with: the tables the file had at
\* first, and a name that never is a table of it
CatalogNames == DOMAIN unit \cup {"people"}

InitCatalog ==
    \E input \in CatalogInputs :
        /\ FreshRun(input)
        /\ client = NoClient
        /\ dst = input.dst
        /\ run_no = 1
        /\ previous = NoRun
        /\ worker = NoWorker

NextCatalog ==
    \/ \E t \in CatalogNames : CatalogGetTableInfo(t)
    \/ \E t \in CatalogNames : SourceInsert(t)
    \/ \E t \in CatalogNames : SourceDropTable(t)
    \/ \E t \in CatalogNames : WriterCreateOutputTable(t)

SpecCatalog == InitCatalog /\ [][NextCatalog]_vars

(***************************************************************************)
(* QueryEngineClient.execute_query: one call against a query engine whose  *)
(* answers and whose answering times are chosen by the environment.  Time  *)
(* is counted in ticks; a request that is answered or times out takes at   *)
(* least one tick.                                                         *)
(***************************************************************************)
MaxTimeout == 3

MaxInterval == 1

MaxDelay == 2

None == "None"

\* an f-string: its fixed text and the text put into it
Text(fixed, detail) == <<fixed, detail>>

\* error = None
NoText == <<>>

QueryResult(success, data, file_path, error, status_code) ==
    [success |-> success, data |-> data, file_path |-> file_path,
     error |-> error, status_code |-> status_code]

QueryError(message, status_code) ==
    [kind |-> "QueryError", message |-> message, status_code |-> status_code]

\* _extract_error_details on a body whose JSON is a number: the test
\* "detail" in error_json raises inside the except clause
TypeError == [kind |-> "TypeError", message |-> Text("", "argument of type 'int' is not iterable"),
              status_code |-> 0]

\* no exception in flight, no result yet; a status_code of None is written 0
NoException == [kind |-> None, message |-> NoText, status_code |-> 0]

NoResult == [success |-> FALSE, data |-> None, file_path |-> None,
             error |-> NoText, status_code |-> 0]

\* what requests.post and the reading of its answer can come to
SubmitOutcomes ==
    {"query_id", "no_query_id", "http_error", "http_error_odd_body",
     "connection_error", "timeout", "bad_json"}

\* what requests.get on the query and the reading of its answer can come to
PollOutcomes ==
    {"success", "success_with_url", "failed", "pending", "no_status", "not_found",
     "http_error", "http_error_odd_body", "connection_error", "timeout", "bad_json"}

\* what the streamed download can come to
DownloadOutcomes == {"saved", "http_error", "connection_error", "timeout", "os_error"}

\* a query_status that is neither success nor failed
StillPending == {"pending", "no_status"}

\* the exception _submit_query raises
SubmitError(outcome) ==
    CASE outcome = "no_query_id" ->
            QueryError(Text("Error submitting query: ", "No query ID returned from server"), 500)
      [] outcome = "http_error" ->
            QueryError(Text("HTTP error submitting query: ", "Status code: 400"), 400)
      [] outcome = "http_error_odd_body" -> TypeError
      [] outcome = "connection_error" -> QueryError(Text("Connection error: ", ""), 502)
      [] outcome = "timeout" -> QueryError(Text("Request timed out after 30 seconds", ""), 504)
      [] outcome = "bad_json" -> QueryError(Text("Error submitting query: ", "Expecting value"), 500)

\* the exception a poll raises
PollError(outcome) ==
    CASE outcome = "not_found" -> QueryError(Text("Query q not found", ""), 404)
      [] outcome = "http_error" ->
            QueryError(Text("HTTP error polling query: ", "Status code: 500"), 500)
      [] outcome = "http_error_odd_body" -> TypeError
      [] outcome = "connection_error" ->
            QueryError(Text("Connection error polling query: ", ""), 502)
      [] outcome = "timeout" -> QueryError(Text("Request timed out after 30 seconds", ""), 504)
      [] outcome = "bad_json" -> QueryError(Text("Error polling query: ", "Expecting value"), 500)

\* the exception _download_results raises
DownloadError(outcome) ==
    CASE outcome = "http_error" ->
            QueryError(Text("HTTP error downloading results: ", "Status code: 403"), 403)
      [] outcome = "connection_error" ->
            QueryError(Text("Connection error downloading results: ", ""), 502)
      [] outcome = "timeout" -> QueryError(Text("Download timed out after 60 seconds", ""), 504)
      [] outcome = "os_error" ->
            QueryError(Text("Error downloading results: ", "No space left on device"), 500)

ClientInputs ==
    {[timeout_seconds |-> ts, poll_interval |-> pi] :
        ts \in 0..MaxTimeout, pi \in 0..MaxInterval}

NoInput == [source |-> EmptySource, cfg |-> Config(1, FALSE, 1, FALSE, NoTableConfigs),
            dst |-> EmptyDb]

\* QueryEngineClient(...) was constructed and execute_query is called
InitQuery ==
    \E c \in ClientInputs :
        /\ FreshRun(NoInput)
        /\ dst = EmptyDb
        /\ run_no = 1
        /\ previous = NoRun
        /\ worker = NoWorker
        /\ client = [pc |-> "Start", timeout_seconds |-> c.timeout_seconds,
                     poll_interval |-> c.poll_interval, now |-> 0, start_time |-> 0,
                     submit |-> None, polls |-> <<>>, download |-> None,
                     raised |-> NoException, result |-> NoResult]

ClientStep(c) ==
    /\ client' = c
    /\ UNCHANGED <<source, cfg, dst, stats, anonymization_stats, table_info_cache, run,
                   raised, unit, submitted, done_order, as_completed, observed, calls,
                   read_log, write_log, last_write, run_no, previous, worker, info_log>>

Raise(c, e) == [c EXCEPT !.pc = "Raised", !.raised = e]

Return(c, r) == [c EXCEPT !.pc = "Returned", !.result = r]

\* _submit_query: the query id, or a QueryError; with the query id
\* _poll_until_complete is entered and takes its start_time
SubmitQuery ==
    /\ client.pc = "Start"
    /\ \E outcome \in SubmitOutcomes, d \in 1..MaxDelay :
        LET c == [client EXCEPT !.now = @ + d, !.submit = outcome] IN
        ClientStep(IF outcome = "query_id"
                   THEN [c EXCEPT !.pc = "Polling", !.start_time = c.now]
                   ELSE Raise(c, SubmitError(outcome)))

\* while (time.time() - start_time) < self.timeout_seconds, and the
\* QueryError behind the loop
PollLoop ==
    /\ client.pc = "Polling"
    /\ ClientStep(IF client.now - client.start_time < client.timeout_seconds
                  THEN [client EXCEPT !.pc = "Requesting"]
                  ELSE Raise(client,
                             QueryError(Text("Timeout exceeded waiting for query results",
                                             ""), 408)))

\* a reading of the answer that takes every status but success as pending
OnStatusIgnoringFailed(c, status) ==
    CASE status = "success" ->
            Return(c, QueryResult(TRUE, status, None, NoText, 0))
      [] status = "success_with_url" -> [c EXCEPT !.pc = "Downloading"]
      [] OTHER -> [c EXCEPT !.pc = "Sleeping"]

\* the branches on query_status
OnStatus(c, status) ==
    CASE status = "success" ->
            Return(c, QueryResult(TRUE, status, None, NoText, 0))
      [] status = "success_with_url" -> [c EXCEPT !.pc = "Downloading"]
      [] status = "failed" ->
            Return(c, QueryResult(FALSE, status, None, Text("Query q failed", ""), 0))
      [] OTHER -> [c EXCEPT !.pc = "Sleeping"]

\* requests.get on the query: its answer is read, or an exception is raised
PollRequest ==
    /\ client.pc = "Requesting"
    /\ \E outcome \in PollOutcomes, d \in 1..MaxDelay :
        LET c == [client EXCEPT
                    !.now = @ + d,
                    !.polls = Append(@, [outcome |-> outcome, sent |-> client.now,
                                         got |-> client.now + d])]
        IN  ClientStep(IF outcome \in {"success", "success_with_url", "failed"}
                                          \cup StillPending
                       THEN OnStatus(c, outcome)
                       ELSE Raise(c, PollError(outcome)))

\* time.sleep(self.poll_interval)
Sleep ==
    /\ client.pc = "Sleeping"
    /\ ClientStep([client EXCEPT !.pc = "Polling", !.now = @ + client.poll_interval])

\* _download_results, and the QueryResult built with its path
DownloadResults ==
    /\ client.pc = "Downloading"
    /\ \E outcome \in DownloadOutcomes, d \in 1..MaxDelay :
        LET c == [client EXCEPT !.now = @ + d, !.download = outcome] IN
        ClientStep(IF outcome = "saved"
                   THEN Return(c, QueryResult(TRUE, "success_with_url",
                                              "query_results_path", NoText, 0))
                   ELSE Raise(c, DownloadError(outcome)))

\* an execute_query that handles QueryError only
ExecuteQueryExceptQueryError ==
    /\ client.pc = "Raised"
    /\ ClientStep(IF client.raised.kind = "QueryError"
                  THEN Return(client, QueryResult(FALSE, "{}", None, client.raised.message,
                                                  client.raised.status_code))
                  ELSE [client EXCEPT !.pc = "Propagated"])

\* the except clauses of execute_query
ExecuteQueryExcept ==
    /\ client.pc = "Raised"
    /\ ClientStep(IF client.raised.kind = "QueryError"
                  THEN Return(client, QueryResult(FALSE, "{}", None, client.raised.message,
                                                  client.raised.status_code))
                  ELSE Return(client,
                              QueryResult(FALSE, "{}", None,
                                          Text("Unexpected error executing query: ",
                                               client.raised.message[2]), 500)))

NextQuery ==
    \/ SubmitQuery
    \/ PollLoop
    \/ PollRequest
    \/ Sleep
    \/ DownloadResults
    \/ ExecuteQueryExcept

SpecQuery == InitQuery /\ [][NextQuery]_vars

\* the call keeps running: every request has a timeout and every sleep ends
SpecQueryLive == SpecQuery /\ WF_vars(NextQuery)

(***************************************************************************)
(* worker.main around the pipeline: the parameters read from the           *)
(* environment, the query, the construction and validation of the          *)
(* pipeline, process_database, the report, and the exit status.            *)
(***************************************************************************)
\* an environment every step of main accepts
SoundEnv ==
    [dev_mode |-> FALSE, query_params |-> "json", job_id |-> "int",
     refiner_id |-> "int", credentials |-> TRUE, query_result |-> "success",
     config_file |-> "valid", input_exists |-> TRUE, report |-> "saved"]

EnvFields == DOMAIN SoundEnv \ {"dev_mode"}

\* environments that differ from a sound one in at most two settings, in
\* production and in development mode: QUERY_PARAMS unset, a JSON text, not
\* JSON, or JSON nested deeper than the parser's recursion limit; each id
\* unset, an integer or another text; QUERY and QUERY_SIGNATURE set or not;
\* the answer of the query engine; the file at PRESIDIO_CONFIG_PATH absent,
\* a configuration or not JSON; the input database file there or not; the
\* report file writable or not
WorkerEnvs ==
    {e \in [dev_mode : BOOLEAN,
            query_params : {"unset", "json", "malformed", "too_deep"},
            job_id : {"unset", "int", "text"},
            refiner_id : {"unset", "int", "text"},
            credentials : BOOLEAN,
            query_result : {"success", "failure"},
            config_file : {"absent", "valid", "malformed"},
            input_exists : BOOLEAN,
            report : {"saved", "raises"}] :
        Cardinality({f \in EnvFields : e[f] # SoundEnv[f]}) <= 2}

\* worker.main passes no table_configs; the input files hold at most one row
WorkerInputs ==
    {i \in Inputs :
        /\ i.cfg.table_configs = NoTableConfigs
        /\ i.cfg.batch_size = 1
        /\ i.cfg.num_workers = 1
        /\ SeqSum([k \in 1..Len(i.source.listing) |->
                      Len(i.source.db[i.source.listing[k]].rows)]) <= 1
        /\ i.dst \in {EmptyDb, StaleDb}}

\* the file anonymization_report.json: not there, cut short, or written
\* with the document json.dump was given
NoReport == [state |-> "absent", content |-> <<>>]

InitWorker ==
    \E input \in WorkerInputs, env \in WorkerEnvs :
        /\ ~env.input_exists => input.source = EmptySource
        /\ FreshRun(input)
        /\ client = NoClient
        /\ dst = input.dst
        /\ run_no = 1
        /\ previous = [run |-> "none", dst |-> input.dst]
        /\ worker = [pc |-> "Start", env |-> env, exit |-> -1, report |-> NoReport]

Exit(status) == [worker EXCEPT !.pc = "Exited", !.exit = status]

WorkerStep(w) ==
    /\ worker' = w
    /\ UNCHANGED <<source, cfg, dst, stats, anonymization_stats, table_info_cache,
                   run, raised, unit, submitted, done_order, as_completed, observed,
                   calls, read_log, write_log, last_write, run_no, previous,
                   info_log, client>>

\* ContainerParams.from_env and the handlers of main around it
FromEnv ==
    /\ worker.pc = "Start"
    /\ LET env == worker.env IN
       WorkerStep(
        IF env.dev_mode THEN [worker EXCEPT !.pc = "Params"]
        ELSE IF env.query_params = "malformed" THEN Exit(1)
        ELSE IF env.query_params = "too_deep" THEN Exit(4)
        ELSE IF /\ env.job_id # "unset" /\ env.refiner_id # "unset"
                /\ "text" \in {env.job_id, env.refiner_id}
        THEN Exit(1)
        ELSE [worker EXCEPT !.pc = "Params"])

\* ContainerParams.validate_production_mode
ValidateProductionMode(env) ==
    /\ env.credentials
    /\ env.job_id = "int" /\ env.refiner_id = "int"

\* the QueryResult the query engine client hands to worker.execute_query
EngineAnswer(env) ==
    IF env.query_result = "success"
    THEN QueryResult(TRUE, "success_with_url", "query_results_path", NoText, 0)
    ELSE QueryResult(FALSE, "failed", None, Text("Query q failed", ""), 0)

\* an execute_query that does not look at query_result.success
ExecuteQueryUnchecked ==
    /\ worker.pc = "Params"
    /\ ~worker.env.dev_mode
    /\ IF ~ValidateProductionMode(worker.env)
       THEN worker' = Exit(2) /\ UNCHANGED client
       ELSE /\ client' = [pc |-> "Returned", result |-> EngineAnswer(worker.env)]
            /\ worker' = [worker EXCEPT !.pc = "Queried"]
    /\ UNCHANGED <<source, cfg, dst, stats, anonymization_stats, table_info_cache,
                   run, raised, unit, submitted, done_order, as_completed, observed,
                   calls, read_log, write_log, last_write, run_no, previous,
                   info_log>>

\* execute_query, in production mode: validate_production_mode, then one
\* call of the query engine client
ExecuteQuery ==
    /\ worker.pc = "Params"
    /\ ~worker.env.dev_mode
    /\ IF ~ValidateProductionMode(worker.env)
       THEN worker' = Exit(2) /\ UNCHANGED client
       ELSE /\ client' = [pc |-> "Returned", result |-> EngineAnswer(worker.env)]
            /\ worker' = IF client'.result.success
                         THEN [worker EXCEPT !.pc = "Queried"]
                         ELSE Exit(2)
    /\ UNCHANGED <<source, cfg, dst, stats, anonymization_stats, table_info_cache,
                   run, raised, unit, submitted, done_order, as_completed, observed,
                   calls, read_log, write_log, last_write, run_no, previous,
                   info_log>>

\* a configuration file that cannot be parsed is passed over
CreatePipelineFallingBack ==
    /\ \/ worker.pc = "Params" /\ worker.env.dev_mode
       \/ worker.pc = "Queried"
    /\ WorkerStep([worker EXCEPT !.pc = "Built"])

\* process_query_results: create_pipeline_from_config when the file at
\* PRESIDIO_CONFIG_PATH exists, create_default_pipeline otherwise
CreatePipeline ==
    /\ \/ worker.pc = "Params" /\ worker.env.dev_mode
       \/ worker.pc = "Queried"
    /\ WorkerStep(
        IF worker.env.config_file = "malformed" THEN Exit(3)
        ELSE [worker EXCEPT !.pc = "Built"])

\* PIIAnonymizationPipeline.validate_configuration; the descriptors it asks
\* get_table_info for are those of the configured tables, and worker.main
\* configures none
ValidateConfiguration(input_exists, c, src) ==
    IF ~input_exists THEN FALSE
    ELSE IF ~c.enabled THEN TRUE
    ELSE IF \E t \in DOMAIN c.table_configs : t \notin Range(src.listing)
    THEN FALSE
    ELSE \A t \in DOMAIN c.table_configs :
            \A column_name \in DOMAIN c.table_configs[t].columns :
                \E i \in 1..Len(src.db[t].cols) : src.db[t].cols[i].name = column_name

\* process_query_results: pipeline.validate_configuration()
ValidateStep ==
    /\ worker.pc = "Built"
    /\ WorkerStep(
        IF ValidateConfiguration(worker.env.input_exists, cfg, source)
        THEN [worker EXCEPT !.pc = "Processing"]
        ELSE Exit(3))

\* process_query_results: pipeline.process_database() is entered
WorkerProcessDatabase ==
    /\ worker.pc = "Processing"
    /\ Discover

\* get_processing_progress, without the clock readings
GetProcessingProgress ==
    [total_tables |-> stats.total_tables,
     processed_tables |-> stats.processed_tables,
     total_rows |-> stats.total_rows,
     processed_rows |-> stats.processed_rows,
     anonymized_rows |-> stats.anonymized_rows,
     progress_percent |-> IF stats.total_rows > 0
                          THEN (stats.processed_rows * 100) \div stats.total_rows
                          ELSE 0]

\* get_anonymization_report, without the clock readings and the NLP settings
GetAnonymizationReport ==
    [pipeline_config |->
        [enabled |-> cfg.enabled, batch_size |-> cfg.batch_size,
         parallel_processing |-> cfg.enable_parallel_processing,
         num_workers |-> cfg.num_workers],
     processing_stats |-> GetProcessingProgress,
     anonymization_stats |->
        [total_values_processed |-> anonymization_stats.total_values_processed,
         total_values_anonymized |-> anonymization_stats.total_values_anonymized,
         entities_found |-> anonymization_stats.entities_found,
         tables_processed |-> anonymization_stats.tables_processed]]

\* process_database returned: save_anonymization_report, return True; when
\* the report cannot be saved the file is not there (mkdir or open raised)
\* or cut short (a write raised)
SaveReport ==
    /\ worker.pc = "Processing"
    /\ run = "Completed"
    /\ IF worker.env.report = "saved"
       THEN WorkerStep([Exit(0) EXCEPT !.report = [state |-> "written",
                                                   content |-> <<GetAnonymizationReport>>]])
       ELSE \E state \in {"absent", "partial"} :
                WorkerStep([Exit(3) EXCEPT !.report = [state |-> state, content |-> <<>>]])

\* a report saved in a finally clause
ProcessingRaisedSavingReport ==
    /\ worker.pc = "Processing"
    /\ run = "Aborted"
    /\ WorkerStep([Exit(3) EXCEPT !.report = [state |-> "written",
                                              content |-> <<GetAnonymizationReport>>]])

\* an exception of process_database goes unnoticed
ProcessingRaisedUnnoticed ==
    /\ worker.pc = "Processing"
    /\ run = "Aborted"
    /\ WorkerStep(Exit(0))

\* process_database raised: except Exception, return False, sys.exit(3)
ProcessingRaised ==
    /\ worker.pc = "Processing"
    /\ run = "Aborted"
    /\ WorkerStep(Exit(3))

NextWorker ==
    \/ FromEnv
    \/ ExecuteQuery
    \/ CreatePipeline
    \/ ValidateStep
    \/ WorkerProcessDatabase
    \/ SaveReport
    \/ ProcessingRaised
    \/ \E t \in Tables : SequentialCall(t)
    \/ SequentialReturn
    \/ \E t \in Tables : Submit(t)
    \/ \E t \in Tables : WorkerStart(t)
    \/ AsCompletedCall
    \/ \E t \in Tables : ObserveDone(t)
    \/ \E t \in Tables : ObserveFailed(t)
    \/ ShutdownRaise
    \/ ParallelReturn
    \/ \E t \in Tables : CreateOutputTable(t)
    \/ \E t \in Tables : StreamYield(t)
    \/ \E t \in Tables : StreamEnd(t)
    \/ \E t \in Tables : TransformPassthrough(t)
    \/ \E t \in Tables : TransformValue(t)
    \/ \E t \in Tables : EndRow(t)
    \/ \E t \in Tables : TransformReturn(t)
    \/ \E t \in Tables : InsertBatchStep(t)
    \/ \E t \in Tables : StoreFailure(t)
    \/ \E t \in Tables : IncRead(t)
    \/ \E t \in Tables : IncWrite(t)
    \/ \E t \in Tables : FinishTable(t)

SpecWorker == InitWorker /\ [][NextWorker]_vars

(***************************************************************************)
(* Runs of the pipeline on one table users(id INTEGER PRIMARY KEY, name    *)
(* TEXT, ssn TEXT) of three rows: names without a digit-dash-digit         *)
(* pattern or an "@", ssn values that are one such pattern.                *)
(***************************************************************************)
ColSsn == <<"s","s","n">>

TextDash == TextV(<<"a","-","1">>)
TextSsn34 == TextV(<<"3","-","4">>)

ScenarioSchema ==
    <<Col(ColId, TypeINTEGER, 1), Col(ColName, TypeTEXT, 0), Col(ColSsn, TypeTEXT, 0)>>

\* the rows in the scan order of an INTEGER PRIMARY KEY table
ScenarioTables ==
    {[k \in 1..3 |-> <<IntV(ids[k]), names[k], ssns[k]>>] :
        ids \in {<<1, 2, 3>>, <<2, 5, 9>>},
        names \in [1..3 -> {TextClean, TextDash}],
        ssns \in {<<TextSsn, TextSsn, TextSsn>>, <<TextSsn, TextSsn34, TextSsn>>}}

ScenarioInputs ==
    {[source |-> [listing |-> <<"users">>,
                  db |-> ("users" :> [cols |-> ScenarioSchema, rows |-> rows])],
      cfg |-> Config(b, par, 1, TRUE, NoTableConfigs), dst |-> EmptyDb] :
        rows \in ScenarioTables, b \in 1..(MaxBatch + 1), par \in BOOLEAN}

InitScenario ==
    \E input \in ScenarioInputs :
        /\ FreshRun(input)
        /\ client = NoClient
        /\ dst = input.dst
        /\ run_no = 1
        /\ previous = NoRun
        /\ worker = NoWorker

\* process_database on one table with anonymization on
NextScenario ==
    \/ Discover
    \/ \E t \in Tables : SequentialCall(t)
    \/ SequentialReturn
    \/ \E t \in Tables : CreateOutputTable(t)
    \/ \E t \in Tables : StreamYield(t)
    \/ \E t \in Tables : StreamEnd(t)
    \/ \E t \in Tables : TransformValue(t)
    \/ \E t \in Tables : EndRow(t)
    \/ \E t \in Tables : TransformReturn(t)
    \/ \E t \in Tables : InsertBatchStep(t)
    \/ \E t \in Tables : StoreFailure(t)
    \/ \E t \in Tables : IncRead(t)
    \/ \E t \in Tables : IncWrite(t)
    \/ \E t \in Tables : FinishTable(t)

SpecScenario == InitScenario /\ [][NextScenario]_vars

(***************************************************************************)
(* stream_table_rows called on its own: a public generator whose caller    *)
(* takes batch after batch, may drop it and may call it again.  The batch  *)
(* size is whatever integer the configuration file or the caller gives:    *)
(* neither PresidioConfig.from_dict nor SQLiteStreamProcessor tests it.    *)
(***************************************************************************)
StreamInputs ==
    {[source |-> s, cfg |-> Config(b, FALSE, 1, FALSE, NoTableConfigs), dst |-> EmptyDb] :
        s \in OneTableSources, b \in -1..MaxBatch}

InitStream ==
    \E input \in StreamInputs :
        /\ FreshRun(input)
        /\ client = NoClient
        /\ dst = input.dst
        /\ run_no = 1
        /\ previous = NoRun
        /\ worker = NoWorker

\* stream_table_rows is called: get_table_info, offset = 0.  The batches a
\* generator dropped for a new one are kept in info_log
StreamOpen(t) ==
    /\ unit[t].pc \in {"NotStarted", "Transforming", "Finishing"}
    /\ Len(info_log) < MaxRuns
    /\ unit' = [unit EXCEPT ![t] = [NewUnit EXCEPT !.pc = "Streaming"]]
    /\ table_info_cache' = GetTableInfo(table_info_cache, t).cache
    /\ info_log' = IF unit[t].pc = "NotStarted" THEN info_log
                   ELSE Append(info_log, [batches |-> read_log[t],
                                          ended |-> unit[t].pc = "Finishing"])
    /\ read_log' = [read_log EXCEPT ![t] = <<>>]
    /\ UNCHANGED <<source, cfg, dst, stats, anonymization_stats, run, raised,
                   submitted, done_order, as_completed, observed, calls, write_log,
                   last_write, run_no, previous, worker, client>>

\* the generator is resumed and yields; the model follows it for MaxCalls
\* batches
StreamNext(t) ==
    /\ Len(read_log[t]) < MaxCalls
    /\ StreamYield(t)

\* the caller is done with the batch and asks for the next one
ConsumerResume(t) ==
    /\ unit[t].pc = "Transforming"
    /\ unit' = [unit EXCEPT ![t].pc = "Streaming"]
    /\ UNCHANGED <<source, cfg, dst, stats, anonymization_stats, table_info_cache, run,
                   raised, submitted, done_order, as_completed, observed, calls,
                   read_log, write_log, last_write, run_no, previous, worker, info_log, client>>

NextStream ==
    \/ \E t \in Tables : StreamOpen(t)
    \/ \E t \in Tables : StreamNext(t)
    \/ \E t \in Tables : ConsumerResume(t)
    \/ \E t \in Tables : StreamEnd(t)

SpecStream == InitStream /\ [][NextStream]_vars

(***************************************************************************)
(* Properties.                                                             *)
(***************************************************************************)
CeilDiv(n, b) == (n + b - 1) \div b

StreamEnded(t) == unit[t].pc \in {"Finishing", "TableDone"}

BatchSizes(t) == [k \in 1..Len(read_log[t]) |-> Len(read_log[t][k])]

\* C7: once the stream of a table of N rows has ended, with batch size
\* B >= 1, it has yielded ceil(N/B) batches; every batch but the last has B
\* rows and the last has N mod B rows, or B when N is a positive multiple of
\* B; for N = 0 it has yielded none.
C7_BatchCount ==
    \A t \in Tables :
        StreamEnded(t) =>
            LET N == Len(source.db[t].rows)
                B == cfg.batch_size
                sizes == BatchSizes(t)
            IN  /\ Len(sizes) = CeilDiv(N, B)
                /\ \A k \in 1..(Len(sizes) - 1) : sizes[k] = B
                /\ Len(sizes) > 0 =>
                      sizes[Len(sizes)] = (IF N % B = 0 THEN B ELSE N % B)
                /\ N = 0 => sizes = <<>>

\* a stream that ended after a full batch followed by a short one
C7_Witness ==
    \E t \in Tables :
        /\ StreamEnded(t)
        /\ Len(read_log[t]) = 2
        /\ Len(read_log[t][1]) = cfg.batch_size
        /\ Len(read_log[t][2]) < cfg.batch_size

\* the spans of found at the positions in keep
RECURSIVE KeptSpans(_, _, _)
KeptSpans(found, keep, i) ==
    IF i > Len(found) THEN <<>>
    ELSE (IF i \in keep THEN <<found[i]>> ELSE <<>>) \o KeptSpans(found, keep, i + 1)

\* output is input, or input with some of its detected spans replaced
ValueDerived(input, output) ==
    \/ output = input
    \/ /\ input.ty # "null"
       /\ \E keep \in SUBSET (1..Len(Analyze(Str(input)))) :
             output = TextV(Anonymize(Str(input),
                                      KeptSpans(Analyze(Str(input)), keep, 1)))

RowDerived(input, output) ==
    /\ Len(output) = Len(input)
    /\ \A i \in 1..Len(input) : ValueDerived(input[i], output[i])

\* C8: every row the transform step hands to the writer has as many values
\* as the table descriptor has columns, and its value i is the value i of
\* the input row or that value anonymized, whether or not a value was
\* altered or a call of the capability failed.
C8_RowShapePreserved ==
    \A t \in Tables :
        unit[t].pc = "Writing" =>
            /\ Len(unit[t].processed_batch) = Len(unit[t].batch)
            /\ \A r \in 1..Len(unit[t].processed_batch) :
                  /\ Len(unit[t].processed_batch[r]) =
                        Len(table_info_cache[t].columns)
                  /\ RowDerived(unit[t].batch[r], unit[t].processed_batch[r])

\* a batch leaves the transform step with an altered value after a call of
\* the capability has failed
C8_Witness ==
    \E t \in Tables :
        /\ unit[t].pc = "Writing"
        /\ unit[t].processed_batch # unit[t].batch
        /\ \E i \in 1..Len(calls[t]) : ~calls[t][i].ok

IdentifierShaped(column_name) ==
    \/ Lower(column_name) \in { <<"i","d">>, <<"u","s","e","r","_","i","d">>,
                                <<"u","u","i","d">>, <<"g","u","i","d">>,
                                <<"k","e","y">>, <<"p","k">> }
    \/ /\ Len(column_name) >= 3
       /\ Lower(SubSeq(column_name, Len(column_name) - 2, Len(column_name)))
             = <<"_","i","d">>

\* C9: no value of a column named id, user_id, uuid, guid, key or pk
\* (whatever the case of its letters) or ending in _id is passed to the
\* capability: neither analyze nor anonymize is ever called for it.
C9_IdColumnsNeverClassified ==
    \A t \in Tables :
        \A column_name \in {calls[t][i].column : i \in 1..Len(calls[t])} :
            ~IdentifierShaped(column_name)

\* a batch went through the enabled transform step with a value the
\* analyzer would flag in an identifier-shaped column of a processable type
C9_Witness ==
    \E t \in Tables :
        /\ unit[t].pc = "Writing"
        /\ cfg.enabled
        /\ \E r \in 1..Len(unit[t].batch) :
            \E i \in 1..Len(unit[t].batch[r]) :
                /\ IdentifierShaped(table_info_cache[t].columns[i])
                /\ Upper(table_info_cache[t].column_types[table_info_cache[t].columns[i]])
                       \in ProcessableTypes
                /\ unit[t].batch[r][i].ty = "text"
                /\ Analyze(Str(unit[t].batch[r][i])) # <<>>

\* C10: the batches of a table are written in the order they were read:
\* batch k is committed before batch k+1 is fetched, and row r of the batch
\* written is row r of the batch read (transformed), in every mode.
C10_WriteOrder ==
    \A t \in Tables :
        /\ Len(write_log[t]) <= Len(read_log[t])
        /\ Len(read_log[t]) <= Len(write_log[t]) + 1
        /\ Len(read_log[t]) > Len(write_log[t]) =>
              unit[t].pc \in {"Transforming", "Writing", "TableFailed"}
        /\ \A k \in 1..Len(write_log[t]) :
              /\ Len(write_log[t][k]) = Len(read_log[t][k])
              /\ \A r \in 1..Len(write_log[t][k]) :
                    RowDerived(read_log[t][k][r], write_log[t][k][r])

\* in parallel mode a table had two batches written, the first of them
\* altered by the transform step
C10_Witness ==
    /\ Parallel
    /\ \E t \in Tables :
        /\ Len(write_log[t]) = 2
        /\ write_log[t][1] # read_log[t][1]

\* C5: process_database returns (Completed) only if every table unit
\* reached TableDone; once a unit has failed the run is never Completed,
\* and a run with a failed unit does not come to rest before it is Aborted.
C5_CompletedOnlyIfAllDone ==
    /\ run = "Completed" => \A t \in Tables : unit[t].pc = "TableDone"
    /\ (\E t \in Tables : unit[t].pc = "TableFailed") => run # "Completed"
    /\ ((\E t \in Tables : unit[t].pc = "TableFailed") /\ run # "Aborted")
          => ENABLED Next

\* a parallel run is Aborted although another unit reached TableDone
C5_Witness ==
    /\ Parallel
    /\ run = "Aborted"
    /\ \E t \in Tables : unit[t].pc = "TableDone"

\* C4: in parallel mode the coordinator raises the error of the first
\* failed unit that as_completed hands it, and no submitted unit is
\* cancelled: when the exception leaves process_database every unit,
\* also one still queued when it was raised, has run to TableDone or
\* TableFailed, and the pool does not come to rest while the coordinator
\* waits in shutdown for a unit that is queued or running.
C4_NoCancellation ==
    Parallel =>
        /\ run \in {"Joining", "Aborted"} =>
              /\ raised.table \in Tables
              /\ unit[raised.table].pc = "TableFailed"
              /\ raised.err = unit[raised.table].err
              /\ observed[Len(observed)] = raised.table
              /\ \A k \in 1..(Len(observed) - 1) :
                    unit[observed[k]].pc = "TableDone"
        /\ run = "Aborted" => \A t \in Tables : Terminal(t)
        /\ (run = "Joining" /\ \E t \in Tables : ~Terminal(t)) => ENABLED Next

\* the run is Aborted and a unit that was still queued when the error was
\* raised has run since
C4_Witness ==
    /\ Parallel
    /\ run = "Aborted"
    /\ \E t \in raised.queued : Terminal(t)

NoTransformError(t) == \A i \in 1..Len(calls[t]) : calls[t][i].ok

\* C1: when the run completes, every table whose processing met no
\* transform error has as many rows in the destination as were read from
\* the source, whatever the batch size and the shape of the table.
C1_RowCountPreserved ==
    run = "Completed" =>
        \A t \in Tables :
            NoTransformError(t) =>
                /\ HasTable(dst, t)
                /\ Len(dst[t].rows) = Len(Concat(read_log[t]))

\* number of successful anonymize calls, and of their spans of one type
Anonymized(t) == {i \in 1..Len(calls[t]) : calls[t][i].op = "anonymize" /\ calls[t][i].ok}

SpansOfType(t, e) ==
    SeqSum([i \in 1..Len(calls[t]) |->
              IF i \in Anonymized(t)
              THEN Cardinality({j \in 1..Len(calls[t][i].spans) :
                                  calls[t][i].spans[j].entity_type = e})
              ELSE 0])

SumOver(f) == SeqSum([i \in 1..Len(Listing) |-> f[Listing[i]]])

\* C3: no increment of the statistics is lost: when the run has ended,
\* processed_rows is the sum of the rows the units counted, processed_tables
\* the number of units that reached TableDone, and the anonymized-value and
\* per-entity-type counters the number of increments issued.
C3_NoLostIncrement ==
    run \in {"Completed", "Aborted"} =>
        /\ stats.processed_rows = SumOver([t \in Tables |-> unit[t].processed_rows])
        /\ stats.processed_tables =
              Cardinality({t \in Tables : unit[t].pc = "TableDone"})
        /\ anonymization_stats.total_values_anonymized =
              SumOver([t \in Tables |-> Cardinality(Anonymized(t))])
        /\ \A e \in EntityTypes :
              anonymization_stats.entities_found[e] =
                  SumOver([t \in Tables |-> SpansOfType(t, e)])

\* the chronologically first unit to fail
FirstFailed ==
    LET failed == {k \in 1..Len(done_order) : unit[done_order[k]].pc = "TableFailed"}
    IN  done_order[CHOOSE k \in failed : \A j \in failed : k <= j]

\* C4 as stated: the error the coordinator raises is the error of the unit
\* that failed first, and no submitted unit is cancelled.
C4_FirstFailureRaised ==
    Parallel =>
        /\ run \in {"Joining", "Aborted"} =>
              /\ raised.table = FirstFailed
              /\ raised.err = unit[FirstFailed].err
        /\ run = "Aborted" => \A t \in Tables : Terminal(t)

HasPrimaryKey(t) == \E i \in 1..Len(source.db[t].cols) : source.db[t].cols[i].pk > 0

KeyOf(cols, row) == [i \in PkPositions(cols) |-> row[i]]

NoDuplicateKeys(table) ==
    \A i, j \in 1..Len(table.rows) :
        i # j => KeyOf(table.cols, table.rows[i]) # KeyOf(table.cols, table.rows[j])

CountOf(rows, r) == Cardinality({i \in 1..Len(rows) : rows[i] = r})

SameRows(a, b) ==
    /\ Len(a) = Len(b)
    /\ \A r \in Range(a) \cup Range(b) : CountOf(a, r) = CountOf(b, r)

\* C6: when the pipeline has completed twice on the same unchanged
\* source, every destination table whose source table has a primary key
\* holds no two rows with the same key and exactly the rows it held after
\* the first run.
C6_RerunIdempotent ==
    (run_no = 2 /\ run = "Completed" /\ previous.run = "Completed") =>
        \A t \in Tables :
            HasPrimaryKey(t) =>
                /\ NoDuplicateKeys(dst[t])
                /\ SameRows(dst[t].rows, previous.dst[t].rows)

\* C2: insert_batch checks the length of every row of the batch against
\* the column count of the destination table: if any row differs it raises
\* the schema-mismatch error (ValueError) before a row is inserted, and the
\* destination table is unchanged.
C2_EveryRowChecked ==
    (/\ last_write.table # ""
     /\ last_write.existed
     /\ \E r \in 1..Len(last_write.rows) :
           Len(last_write.rows[r]) # Len(dst[last_write.table].cols))
    => /\ last_write.err = "ValueError"
       /\ last_write.executed = 0
       /\ dst[last_write.table].rows = last_write.before

ConcurrencyAllowed == cfg.enable_parallel_processing /\ Len(Listing) > 1

\* C11: two table units are in execution at the same time only when
\* parallel processing is enabled and the listing has more than one table;
\* otherwise no unit is handed to a pool and a unit starts only when every
\* table listed before it has reached TableDone.
C11_SequentialUnlessParallel ==
    /\ (\E t1, t2 \in Tables : t1 # t2 /\ Executing(t1) /\ Executing(t2))
          => ConcurrencyAllowed
    /\ ~ConcurrencyAllowed =>
          \A k \in 1..Len(Listing) :
              unit[Listing[k]].pc # "NotStarted" =>
                  /\ unit[Listing[k]].pc # "Queued"
                  /\ \A j \in 1..(k - 1) : unit[Listing[j]].pc = "TableDone"

\* with parallel processing off the second of two tables is in execution
\* after the first has reached TableDone
C11_Witness ==
    /\ ~cfg.enable_parallel_processing
    /\ Len(Listing) = 2
    /\ unit[Listing[1]].pc = "TableDone"
    /\ Executing(Listing[2])

IsPrefix(s, t) == Len(s) <= Len(t) /\ s = SubSeq(t, 1, Len(s))

\* C12: in parallel mode at most num_workers units are in execution at any
\* moment, no row of a table is read twice (the table is processed once,
\* by its one unit), and at most one batch of a table is read and not yet
\* written.
C12_BoundedPool ==
    Parallel =>
        /\ Cardinality({t \in Tables : Executing(t)}) <= cfg.num_workers
        /\ \A t \in Tables :
              /\ IsPrefix(Concat(read_log[t]), source.db[t].rows)
              /\ Len(read_log[t]) <= Len(write_log[t]) + 1

\* every worker of the pool is busy and a unit waits in the queue
C12_Witness ==
    /\ Parallel
    /\ Cardinality({t \in Tables : Executing(t)}) = cfg.num_workers
    /\ \E t \in Tables : unit[t].pc = "Queued"

\* C13: a unit holds at most one batch, the one read last, of at most
\* batch_size rows; a table of more than batch_size rows is never held
\* as a whole.
C13_OneBatchInMemory ==
    \A t \in Tables :
        /\ Len(unit[t].batch) <= cfg.batch_size
        /\ Len(unit[t].processed_list) <= cfg.batch_size
        /\ Len(unit[t].processed_batch) <= cfg.batch_size
        /\ unit[t].batch # <<>> =>
              unit[t].batch = read_log[t][Len(read_log[t])]
        /\ Len(source.db[t].rows) > cfg.batch_size =>
              Len(unit[t].batch) < Len(source.db[t].rows)

\* the second full batch of a table of more rows than batch_size is about
\* to be written
C13_Witness ==
    \E t \in Tables :
        /\ Len(source.db[t].rows) > cfg.batch_size
        /\ unit[t].pc = "Writing"
        /\ unit[t].offset > 0
        /\ Len(unit[t].batch) = cfg.batch_size

(***************************************************************************)
(* The column policy and the value test as the contract words them.        *)
(***************************************************************************)
PolicyOf(t, column_name) ==
    IF /\ t \in DOMAIN cfg.table_configs
       /\ column_name \in DOMAIN cfg.table_configs[t].columns
    THEN cfg.table_configs[t].columns[column_name]
    ELSE [enabled |-> TRUE, entity_types |-> {}, language |-> "en",
          confidence_threshold |-> 0]

PolicyEnabled(t, column_name) ==
    /\ t \in DOMAIN cfg.table_configs => cfg.table_configs[t].enabled
    /\ PolicyOf(t, column_name).enabled

\* column i of table t passes the type, the name and the policy test
Eligible(t, i) ==
    LET col == source.db[t].cols[i]
    IN  /\ Upper(col.type) \in ProcessableTypes
        /\ ~IdentifierShaped(col.name)
        /\ PolicyEnabled(t, col.name)

\* a non-null value whose string form has trimmed length >= 2
Analyzable(v) == v.ty # "null" /\ Len(Strip(Str(v))) >= 2

\* the spans of v that the filters of column i retain
Retained(t, i, v) ==
    LET policy == PolicyOf(t, source.db[t].cols[i].name)
        Keep(r) == /\ policy.entity_types # {} => r.entity_type \in policy.entity_types
                   /\ policy.confidence_threshold # 0 =>
                          r.score >= policy.confidence_threshold
    IN  SelectSeq(Analyze(Str(v)), Keep)

\* the capability raises on value v of column i
Fails(t, i, v) ==
    /\ Eligible(t, i)
    /\ Analyzable(v)
    /\ \/ AnalyzeRaises(Str(v))
       \/ Retained(t, i, v) # <<>> /\ AnonymizeRaises(Str(v))

StoreErrors == {"OperationalError", "ValueError", "ProgrammingError", "IntegrityError"}

\* C14: a failure of analyze or anonymize on one value is caught where it
\* happens: the batch leaves the transform with as many rows and values as
\* it had, the value that failed is unchanged, every other value with
\* retained spans is anonymized, the count of anonymized values is the
\* number of anonymize calls that returned, and a unit fails only by an
\* error of the store.
C14_FailureCaughtLocally ==
    \A t \in Tables :
        /\ unit[t].pc = "TableFailed" => unit[t].err \in StoreErrors
        /\ (cfg.enabled /\ unit[t].pc = "Writing") =>
              LET u == unit[t] IN
              /\ Len(u.processed_batch) = Len(u.batch)
              /\ \A r \in 1..Len(u.batch) :
                    /\ Len(u.processed_batch[r]) = Len(u.batch[r])
                    /\ \A i \in 1..Len(u.batch[r]) :
                          LET v == u.batch[r][i] IN
                          /\ Fails(t, i, v) => u.processed_batch[r][i] = v
                          /\ ( /\ Eligible(t, i) /\ Analyzable(v) /\ ~Fails(t, i, v)
                               /\ Retained(t, i, v) # <<>> ) =>
                                 u.processed_batch[r][i] =
                                     TextV(Anonymize(Str(v), Retained(t, i, v)))
              /\ Len(Listing) = 1 =>
                    anonymization_stats.total_values_anonymized
                        = Cardinality(Anonymized(t))

\* a call fails on one value and a later value of the batch is anonymized
C14_Witness ==
    \E t \in Tables :
        /\ cfg.enabled
        /\ unit[t].pc = "Writing"
        /\ unit[t].processed_batch # unit[t].batch
        /\ \E j, k \in 1..Len(calls[t]) :
              /\ j < k
              /\ ~calls[t][j].ok
              /\ calls[t][k].op = "anonymize" /\ calls[t][k].ok

\* C15: a value of a column that fails the type, name or policy test, a
\* null or too short value, and a value whose spans are all removed by the
\* filters of its column leave the transform identical to the input,
\* numbers as numbers.
C15_IneligibleUnchanged ==
    \A t \in Tables :
        (cfg.enabled /\ unit[t].pc = "Writing") =>
            \A r \in 1..Len(unit[t].batch) :
                \A i \in 1..Len(unit[t].batch[r]) :
                    LET v == unit[t].batch[r][i] IN
                    ( \/ ~Eligible(t, i)
                      \/ ~Analyzable(v)
                      \/ ~AnalyzeRaises(Str(v)) /\ Retained(t, i, v) = <<>> ) =>
                        /\ r <= Len(unit[t].processed_batch)
                        /\ i <= Len(unit[t].processed_batch[r])
                        /\ unit[t].processed_batch[r][i] = v

\* a batch with an analyzed number and a text whose spans were all filtered
\* out, next to a value that was anonymized
C15_Witness ==
    \E t \in Tables :
        /\ cfg.enabled
        /\ unit[t].pc = "Writing"
        /\ unit[t].processed_batch # unit[t].batch
        /\ \E r \in 1..Len(unit[t].batch) : \E i \in 1..Len(unit[t].batch[r]) :
              LET v == unit[t].batch[r][i] IN
              /\ Eligible(t, i) /\ Analyzable(v) /\ v.ty = "int"
              /\ unit[t].processed_batch[r][i] = v
        /\ \E r \in 1..Len(unit[t].batch) : \E i \in 1..Len(unit[t].batch[r]) :
              LET v == unit[t].batch[r][i] IN
              /\ Eligible(t, i) /\ Analyzable(v)
              /\ Analyze(Str(v)) # <<>> /\ Retained(t, i, v) = <<>>
              /\ unit[t].processed_batch[r][i] = v

\* the rows the transform has been given so far
RowsSeen(t) == Concat(read_log[t])

\* C16: analyze is called for a column exactly when the column is eligible
\* (type on the allow-list, name not identifier-shaped, policy enabled with
\* a missing entry standing for enabled and a disabled table disabling its
\* columns) and a value of it is non-null and long enough.
C16_EligibleExactly ==
    \A t \in Tables :
        (cfg.enabled /\ unit[t].pc = "Writing") =>
            \A i \in 1..Len(source.db[t].cols) :
                (\E k \in 1..Len(calls[t]) :
                    /\ calls[t][k].op = "analyze"
                    /\ calls[t][k].column = source.db[t].cols[i].name)
                <=> ( /\ Eligible(t, i)
                      /\ \E r \in 1..Len(RowsSeen(t)) : Analyzable(RowsSeen(t)[r][i]) )

\* a policy with an entry that enables a column of a type off the list and
\* no entry for a column under its own name: the first is never analyzed,
\* the second is
C16_Witness ==
    \E t \in Tables :
        /\ cfg.enabled
        /\ unit[t].pc = "Writing"
        /\ t \in DOMAIN cfg.table_configs
        /\ \E i, j \in 1..Len(source.db[t].cols) :
              LET ci == source.db[t].cols[i]
                  cj == source.db[t].cols[j]
              IN  /\ ci.name \in DOMAIN cfg.table_configs[t].columns
                  /\ cfg.table_configs[t].columns[ci.name].enabled
                  /\ Upper(ci.type) \notin ProcessableTypes
                  /\ \E r \in 1..Len(RowsSeen(t)) : Analyzable(RowsSeen(t)[r][i])
                  /\ cj.name \notin DOMAIN cfg.table_configs[t].columns
                  /\ \E k \in 1..Len(calls[t]) : calls[t][k].column = cj.name

\* the calls the contract asks for one value, one row, a list of rows
ExpectedOfValue(t, i, v) ==
    LET column_name == source.db[t].cols[i].name IN
    IF ~(Eligible(t, i) /\ Analyzable(v)) THEN <<>>
    ELSE <<[op |-> "analyze", column |-> column_name, text |-> Str(v), spans |-> <<>>]>>
         \o (IF ~AnalyzeRaises(Str(v)) /\ Retained(t, i, v) # <<>>
             THEN <<[op |-> "anonymize", column |-> column_name, text |-> Str(v),
                     spans |-> Retained(t, i, v)]>>
             ELSE <<>>)

ExpectedOfRow(t, row) == Concat([i \in 1..Len(row) |-> ExpectedOfValue(t, i, row[i])])

ExpectedCalls(t, rows) == Concat([r \in 1..Len(rows) |-> ExpectedOfRow(t, rows[r])])

C19_CreateIdempotent ==
    \A t \in Tables :
        /\ (HasTable(previous.dst, t) /\ write_log[t] = <<>>) =>
              /\ HasTable(dst, t)
              /\ dst[t] = previous.dst[t]
        /\ ( /\ HasTable(previous.dst, t)
             /\ Len(previous.dst[t].cols) # Len(source.db[t].cols)
             /\ unit[t].pc = "TableFailed" ) => read_log[t] # <<>>

\* create_output_table has returned for a table that held a row and had a
\* column too few
C19_Witness ==
    \E t \in Tables :
        /\ unit[t].pc = "Streaming" /\ read_log[t] = <<>>
        /\ HasTable(previous.dst, t) /\ previous.dst[t].rows # <<>>
        /\ Len(dst[t].cols) # Len(table_info_cache[t].columns)

\* C20: after insert_batch has raised, the destination table holds the
\* rows it held before the call; after it has returned, every row of the
\* batch was executed and is in the table unless a later row of the batch
\* with the same key replaced it.
C20_BatchAtomic ==
    last_write.table # "" =>
        LET t == last_write.table IN
        /\ last_write.err # "none" =>
              /\ HasTable(dst, t) => dst[t].rows = last_write.before
              /\ last_write.existed => HasTable(dst, t)
        /\ (last_write.err = "none" /\ last_write.rows # <<>>) =>
              /\ HasTable(dst, t)
              /\ last_write.executed = Len(last_write.rows)
              /\ \A k \in 1..Len(last_write.rows) :
                    \/ last_write.rows[k] \in Range(dst[t].rows)
                    \/ /\ PkPositions(dst[t].cols) # {}
                       /\ \E j \in (k + 1)..Len(last_write.rows) :
                             KeyOf(dst[t].cols, last_write.rows[j])
                                 = KeyOf(dst[t].cols, last_write.rows[k])

\* insert_batch has raised on a later row after executing the rows before
\* it, on a table that held rows
C20_Witness ==
    /\ last_write.table # ""
    /\ last_write.err = "ProgrammingError"
    /\ last_write.executed >= 1
    /\ last_write.before # <<>>

\* the rows insert_batch has committed for table t in this run, in order
Written(t) == Concat(write_log[t])

\* C21: the failure of a unit aborts the run with the error of a failed
\* unit and undoes nothing: once a unit has failed, every row committed
\* for any table, the failing one included, is still in the destination
\* unless a later committed row of the same key replaced it, and a unit
\* that holds a batch to write can still write it.
C21_FailureKeepsWrites ==
    /\ run = "Aborted" =>
          /\ raised.table \in Tables
          /\ unit[raised.table].pc = "TableFailed"
          /\ raised.err = unit[raised.table].err
    /\ (\E f \in Tables : unit[f].pc = "TableFailed") =>
          \A t \in Tables :
              /\ Written(t) # <<>> => HasTable(dst, t)
              /\ \A k \in 1..Len(Written(t)) :
                    \/ Written(t)[k] \in Range(dst[t].rows)
                    \/ /\ PkPositions(dst[t].cols) # {}
                       /\ \E j \in (k + 1)..Len(Written(t)) :
                             KeyOf(dst[t].cols, Written(t)[j])
                                 = KeyOf(dst[t].cols, Written(t)[k])
              /\ unit[t].pc = "Writing" => ENABLED InsertBatchStep(t)

\* a parallel run is aborted by a unit that failed, and another unit
\* committed its rows and finished after the failure
C21_Witness ==
    /\ run = "Aborted"
    /\ \E f, t \in Tables :
          /\ unit[f].pc = "TableFailed"
          /\ unit[t].pc = "TableDone" /\ Written(t) # <<>>
          /\ Written(t)[1] \in Range(dst[t].rows)
          /\ done_order = <<f, t>>

\* the calls of the log that returned a descriptor for table t
Returned(t) == {i \in 1..Len(info_log) : info_log[i].table = t /\ info_log[i].err = "none"}

\* C22: a descriptor is built by the first get_table_info call for its
\* table and cached: every later call for the table returns that same
\* descriptor without a query, whatever the file holds by then, and the
\* cache keeps holding it.
C22_DescriptorCached ==
    \A t \in TableNames :
        \A i \in Returned(t) :
            /\ t \in DOMAIN table_info_cache
            /\ table_info_cache[t] = info_log[i].info
            /\ \A j \in Returned(t) :
                  i < j => /\ info_log[j].info = info_log[i].info
                           /\ ~info_log[j].queried

\* a later call returns the cached descriptor of a table that has another
\* row count by then, or is gone
C22_Witness ==
    \E t \in TableNames :
        \E i, j \in Returned(t) :
            /\ i < j
            /\ info_log[i].queried
            /\ \/ ~info_log[j].exists
               \/ info_log[j].row_count # info_log[j].info.row_count

\* C23 as stated: every call for a name that is not a table of the file at
\* the time of the call fails.
C23_MissingAlwaysFails ==
    \A i \in 1..Len(info_log) :
        ~info_log[i].exists => info_log[i].err # "none"

\* C23: get_table_info for a name that is not a table of the file and has
\* no cached descriptor fails with sqlite3.OperationalError (no such
\* table), returns no descriptor, and the cache holds an entry only for
\* names a call has returned a descriptor for.
C23_MissingUncachedFails ==
    /\ \A i \in 1..Len(info_log) :
          ( /\ ~info_log[i].exists
            /\ \A h \in Returned(info_log[i].table) : h >= i ) =>
              /\ info_log[i].err = "OperationalError"
              /\ info_log[i].info = <<>>
    /\ \A t \in DOMAIN table_info_cache : Returned(t) # {}

\* a call has failed for a name that was never a table of the file, and
\* the cache has no entry for it
C23_Witness ==
    \E i \in 1..Len(info_log) :
        /\ info_log[i].err = "OperationalError"
        /\ ~info_log[i].exists
        /\ info_log[i].table \notin DOMAIN table_info_cache
        /\ \E j \in 1..Len(info_log) : j # i /\ info_log[j].err = "none"

\* worker.main ran and is over
Exited == worker.pc = "Exited"

\* nothing of the output file or of the input tables has been touched
Untouched ==
    /\ run = "NotStarted"
    /\ dst = previous.dst
    /\ \A t \in Tables : read_log[t] = <<>> /\ write_log[t] = <<>>
    /\ table_info_cache = NoTableInfo

\* the parameters of a production run are not what from_env asks for
BadParams(env) ==
    \/ env.query_params = "malformed"
    \/ "text" \in {env.job_id, env.refiner_id}

\* the pipeline configuration cannot be read or is found invalid
BadPipelineConfig ==
    \/ worker.env.config_file = "malformed"
    \/ ~ValidateConfiguration(worker.env.input_exists, cfg, source)

\* C24 as stated: whenever QUERY_PARAMS is not JSON, an id is not an
\* integer, the pipeline configuration file is unreadable or
\* validate_configuration returns false, the run creates no destination
\* table and streams no source row, in whatever mode the worker runs.
C24_ConfigErrorAlwaysFirst ==
    (worker.pc # "none" /\ (BadParams(worker.env) \/ BadPipelineConfig)) => Untouched

\* C24: in production mode a QUERY_PARAMS text that is not JSON or an id
\* that is not an integer, and in either mode an unreadable pipeline
\* configuration file or validate_configuration returning false, end the
\* worker with a non-zero status while no destination table has been
\* created and no source row streamed; in development mode QUERY_PARAMS
\* and the ids are never read.
C24_ConfigErrorFirst ==
    worker.pc # "none" =>
        /\ ((~worker.env.dev_mode /\ BadParams(worker.env)) \/ BadPipelineConfig)
              => (/\ Untouched
                  /\ worker.pc # "Processing"
                  /\ (Exited => worker.exit \in 1..4))
        /\ (worker.pc \in {"Start", "Params", "Queried", "Built"} => Untouched)

C24_Witness ==
    /\ Exited
    /\ worker.exit = 3
    /\ worker.env.config_file = "malformed"
    /\ worker.env.dev_mode
    /\ \E t \in Tables : source.db[t].rows # <<>>
    /\ Untouched

\* the fatal conditions of a worker run
ParamError(env) ==
    /\ ~env.dev_mode
    /\ \/ env.query_params = "malformed"
       \/ /\ env.query_params \in {"unset", "json"}
          /\ env.job_id # "unset" /\ env.refiner_id # "unset"
          /\ "text" \in {env.job_id, env.refiner_id}

UnexpectedError(env) == ~env.dev_mode /\ env.query_params = "too_deep"

QueryFailure(env) ==
    /\ ~env.dev_mode
    /\ \/ ~env.credentials
       \/ env.job_id # "int" \/ env.refiner_id # "int"
       \/ env.query_result = "failure"

ProcessingFailure ==
    \/ BadPipelineConfig
    \/ run = "Aborted"
    \/ run = "Completed" /\ worker.env.report = "raises"

\* C25: a worker that ended with status 1 had a parameter error, with 2 a
\* query failure, with 3 a processing failure, with 4 an unexpected error;
\* a run in which a table unit failed ends with 3; and the status is 0 only
\* when process_database returned after every table unit was done and the
\* report was saved, none of the fatal conditions being met.
C25_ExitStatus ==
    Exited =>
        /\ worker.exit \in 0..4
        /\ (worker.exit = 1 => ParamError(worker.env))
        /\ (worker.exit = 2 => QueryFailure(worker.env) /\ ~ParamError(worker.env))
        /\ (worker.exit = 3 => ProcessingFailure)
        /\ (worker.exit = 4 => UnexpectedError(worker.env))
        /\ ((\E t \in Tables : unit[t].pc = "TableFailed") => worker.exit = 3)
        /\ ((ParamError(worker.env) \/ UnexpectedError(worker.env)
             \/ QueryFailure(worker.env) \/ ProcessingFailure) => worker.exit # 0)
        /\ (worker.exit = 0 =>
              /\ run = "Completed"
              /\ stats.ended
              /\ \A t \in Tables : unit[t].pc = "TableDone"
              /\ worker.env.report = "saved")

C25_Witness ==
    /\ Exited
    /\ worker.exit = 3
    /\ run = "Aborted"
    /\ \E t \in Tables : unit[t].pc = "TableFailed"
    /\ ~BadPipelineConfig

\* C26: once the run over users(id INTEGER PRIMARY KEY, name TEXT, ssn
\* TEXT) with three rows has completed, the destination table holds three
\* rows, the k-th with the id and the name of the k-th source row and with
\* the placeholder as its ssn, and total_values_anonymized is 3.
C26_SsnScenario ==
    run = "Completed" =>
        /\ HasTable(dst, "users")
        /\ Len(dst["users"].rows) = 3
        /\ \A k \in 1..3 :
              /\ dst["users"].rows[k][1] = source.db["users"].rows[k][1]
              /\ dst["users"].rows[k][2] = source.db["users"].rows[k][2]
              /\ dst["users"].rows[k][3] = TextV(<<Placeholder("US_SSN")>>)
              /\ dst["users"].rows[k][3] # source.db["users"].rows[k][3]
        /\ anonymization_stats.total_values_anonymized = 3
        /\ stats.anonymized_rows = 3

C26_Witness ==
    /\ run = "Completed"
    /\ Len(source.db["users"].rows) = 3
    /\ Len(read_log["users"]) = 2
    /\ source.db["users"].rows[2] = <<IntV(5), TextDash, TextSsn34>>
    /\ dst["users"].rows[2][3] = TextV(<<Placeholder("US_SSN")>>)

\* the source tables without rows
EmptyTables == {t \in Tables : source.db[t].rows = <<>>}

NamesAndTypes(cols) == [i \in 1..Len(cols) |-> <<cols[i].name, cols[i].type>>]

\* the unit of table x has added itself to processed_tables
Counted(x) ==
    \/ unit[x].pc = "TableDone"
    \/ unit[x].pc = "Finishing" /\ unit[x].todo = <<>>

\* a step of the unit of table t that is not the handling of a batch
UnitStep(t) ==
    CreateOutputTable(t) \/ StreamEnd(t) \/ IncRead(t) \/ IncWrite(t) \/ FinishTable(t)

\* C27: the unit of a source table with 0 rows never fails and never
\* handles a batch; from the moment it is started it always has a next step
\* until it is done; once it streams, the destination table exists and,
\* unless the output file held the table before the run, has the column
\* names and types of the source table and 0 rows; when it is done
\* processed_tables has been incremented (in a run without a pool it equals
\* the number of units that have counted themselves); and a run over empty
\* tables only is never aborted.
C27_EmptyTable ==
    /\ \A t \in EmptyTables :
        /\ unit[t].pc # "TableFailed"
        /\ read_log[t] = <<>> /\ write_log[t] = <<>>
        /\ unit[t].pc \in {"Started", "Streaming", "Finishing"} => ENABLED UnitStep(t)
        /\ unit[t].pc \in {"Streaming", "Finishing", "TableDone"} =>
              /\ HasTable(dst, t)
              /\ ~HasTable(previous.dst, t) =>
                    /\ NamesAndTypes(dst[t].cols) = NamesAndTypes(source.db[t].cols)
                    /\ dst[t].rows = <<>>
        /\ unit[t].pc = "TableDone" =>
              /\ stats.processed_tables >= 1
              /\ ~Parallel => stats.processed_tables =
                                Cardinality({x \in Tables : Counted(x)})
        /\ run = "Completed" => unit[t].pc = "TableDone"
    /\ EmptyTables = Tables => run # "Aborted"

C27_Witness ==
    /\ run = "Completed"
    /\ \E t, x \in Tables :
        /\ t \in EmptyTables
        /\ unit[t].pc = "TableDone"
        /\ HasTable(dst, t) /\ dst[t].rows = <<>> /\ dst[t].cols # <<>>
        /\ ~HasTable(previous.dst, t)
        /\ Written(x) # <<>>
        /\ stats.processed_tables = 2

\* C28: for every batch size and every table of N rows, every batch the
\* stream yields has at most batch_size rows, no batch follows a batch
\* shorter than batch_size, and the stream yields at most N batches (each
\* batch of a finite stream over N rows holds a row of its own).
C28_StreamBounded ==
    \A t \in Tables :
        /\ \A k \in 1..Len(read_log[t]) : Len(read_log[t][k]) <= cfg.batch_size
        /\ \A k \in 1..(Len(read_log[t]) - 1) : Len(read_log[t][k]) = cfg.batch_size
        /\ Len(read_log[t]) <= Len(source.db[t].rows)

\* the rows at positions (k-1)*B to min(k*B, N)-1 of table t, counted from 0
Page(t, k) ==
    SubSeq(source.db[t].rows, (k - 1) * cfg.batch_size + 1,
           Min(k * cfg.batch_size, Len(source.db[t].rows)))

\* C29: with a batch size of at least 1, the k-th batch a stream yields is
\* the rows at positions (k-1)*B to min(k*B, N)-1 of the table, each row
\* with one value per descriptor column; a stream started again yields the
\* batches of every stream before it, as far as both went; and the batches
\* of a stream that has ended are, one after the other, the rows of the
\* table.
C29_PositionBased ==
    cfg.batch_size >= 1 =>
        \A t \in Tables :
            /\ \A k \in 1..Len(read_log[t]) :
                  /\ read_log[t][k] = Page(t, k)
                  /\ \A r \in 1..Len(read_log[t][k]) :
                        Len(read_log[t][k][r]) = Len(table_info_cache[t].columns)
            /\ \A i \in 1..Len(info_log) :
                  /\ \/ IsPrefix(info_log[i].batches, read_log[t])
                     \/ IsPrefix(read_log[t], info_log[i].batches)
                  /\ info_log[i].ended => Concat(info_log[i].batches) = source.db[t].rows
            /\ unit[t].pc = "Finishing" => Concat(read_log[t]) = source.db[t].rows

C29_Witness ==
    /\ cfg.batch_size = 2
    /\ \E t \in Tables :
        /\ unit[t].pc = "Finishing"
        /\ Len(read_log[t]) = 2
        /\ Len(read_log[t][2]) = 1
        /\ \E i \in 1..Len(info_log) :
              info_log[i].ended /\ info_log[i].batches = read_log[t]

\* value v of column i is altered: eligible, analyzable, with a span the
\* filters retain, and the capability has not failed on it
Altered(t, i, v) ==
    /\ Eligible(t, i)
    /\ Analyzable(v)
    /\ Retained(t, i, v) # <<>>
    /\ ~Fails(t, i, v)

\* the retained spans of category e in the altered values of a row
RetainedInRow(t, row, e) ==
    SeqSum([i \in 1..Len(row) |->
              IF Altered(t, i, row[i])
              THEN Cardinality({j \in 1..Len(Retained(t, i, row[i])) :
                                  Retained(t, i, row[i])[j].entity_type = e})
              ELSE 0])

\* C30: with anonymization on, whenever the transform of a batch has
\* returned, entities_found counts for each category the spans of that
\* category retained in the altered values of the rows read so far (a span
\* the filters removed, and a span of a value the capability failed on,
\* counts nowhere), and anonymized_rows counts the rows read so far that
\* have at least one altered value, each once.
C30_CountersExact ==
    cfg.enabled =>
        \A t \in Tables :
            unit[t].pc \in {"Writing", "Finishing", "TableDone"} =>
                /\ \A e \in EntityTypes :
                      anonymization_stats.entities_found[e] =
                          SeqSum([r \in 1..Len(RowsSeen(t)) |->
                                     RetainedInRow(t, RowsSeen(t)[r], e)])
                /\ stats.anonymized_rows =
                      Cardinality({r \in 1..Len(RowsSeen(t)) :
                          \E i \in 1..Len(RowsSeen(t)[r]) :
                              Altered(t, i, RowsSeen(t)[r][i])})

C30_Witness ==
    /\ cfg.enabled
    /\ \E t \in Tables :
        /\ unit[t].pc = "Writing"
        /\ Len(RowsSeen(t)) = 2
        /\ stats.anonymized_rows = 1
        /\ \E r \in 1..2 :
              /\ Cardinality({i \in 1..Len(RowsSeen(t)[r]) :
                                 Altered(t, i, RowsSeen(t)[r][i])}) >= 2
              /\ \E i \in 1..Len(RowsSeen(t)[r]) :
                    /\ Altered(t, i, RowsSeen(t)[r][i])
                    /\ Len(Retained(t, i, RowsSeen(t)[r][i])) <
                          Len(Analyze(Str(RowsSeen(t)[r][i])))

\* the anonymization counters as they were when the pipeline was built
CountersAtZero ==
    /\ anonymization_stats = NewAnonymizationStats
    /\ stats.anonymized_rows = 0
    /\ \A t \in Tables : calls[t] = <<>>

\* C31: with anonymization disabled, a run that completes on an empty
\* output file leaves, for every table, exactly the source rows with every
\* value unchanged in the destination, and every anonymization counter at
\* zero.
C31_PassthroughCopies ==
    (run = "Completed" /\ run_no = 1 /\ ~cfg.enabled /\ previous.dst = EmptyDb) =>
        /\ CountersAtZero
        /\ \A t \in Tables :
            /\ HasTable(dst, t)
            /\ SameRows(dst[t].rows, source.db[t].rows)

\* C32: in parallel mode, when process_database returns or raises, every
\* submitted unit has run to its end, and from then on no step writes to
\* the destination, updates a counter or moves a unit.
C32_NothingAfterReturn ==
    [][Parallel =>
          /\ (run' \in {"Completed", "Aborted"}) =>
                \A t \in Tables :
                    /\ unit'[t].pc \in {"TableDone", "TableFailed"}
                    /\ unit'[t].todo = <<>>
          /\ (run \in {"Completed", "Aborted"}) =>
                /\ dst' = dst
                /\ stats' = stats
                /\ anonymization_stats' = anonymization_stats
                /\ unit' = unit
                /\ write_log' = write_log]_vars

\* a parallel run was aborted, and a unit the coordinator never looked at
\* has written its rows and reached TableDone
C32_Witness ==
    /\ Parallel
    /\ run = "Aborted"
    /\ \E t \in Tables :
        /\ unit[t].pc = "TableDone"
        /\ t \notin Range(observed)
        /\ write_log[t] # <<>>

\* C33: when the first table unit starts, the descriptor cache holds the
\* descriptor of every listed table, and no step after discovery, whether
\* of a unit or of the coordinator, writes to the cache.
C33_CacheReadOnlyForUnits ==
    [][/\ (\E t \in Tables : unit'[t].pc \notin {"NotStarted", "Queued"}) =>
              /\ DOMAIN table_info_cache' = Tables
              /\ \A t \in Tables :
                    table_info_cache'[t] = GetTableInfo(NoTableInfo, t).info
       /\ (run # "NotStarted") => (table_info_cache' = table_info_cache)]_vars

\* two units of a parallel run are executing at the same time, both past
\* their get_table_info call
C33_Witness ==
    /\ Parallel
    /\ \E t1, t2 \in Tables :
        /\ t1 # t2
        /\ unit[t1].pc \in {"Streaming", "Transforming", "Writing"}
        /\ unit[t2].pc \in {"Streaming", "Transforming", "Writing"}
    /\ DOMAIN table_info_cache = Tables

\* the tables behind t in listing order
After(t) ==
    {Listing[j] : j \in {j \in 1..Len(Listing) :
                            \E k \in 1..(j - 1) : Listing[k] = t}}

\* the run has done nothing for table t: its unit was not started, nothing
\* was read from it, and the destination holds for it what it held before
NotTouched(t) ==
    /\ unit[t] = NewUnit
    /\ read_log[t] = <<>>
    /\ write_log[t] = <<>>
    /\ calls[t] = <<>>
    /\ HasTable(dst, t) = HasTable(previous.dst, t)
    /\ HasTable(dst, t) => dst[t] = previous.dst[t]

\* C34: in sequential mode the step in which a table unit fails is the
\* step in which process_database raises (the run is Aborted with the
\* error of that unit), and the run has done and will do nothing for the
\* tables behind the failed one: none is started, none is created in the
\* destination, and no row is written for any of them.
C34_SequentialStopsAtFailure ==
    ~Parallel =>
        \A t \in Tables :
            unit[t].pc = "TableFailed" =>
                /\ run = "Aborted"
                /\ raised.table = t
                /\ raised.err = unit[t].err
                /\ \A x \in After(t) : NotTouched(x)
                /\ \A x \in Tables \ {t} : ~Executing(x)

\* a sequential run over two tables was aborted by the failure of the
\* first table while the second table has rows to copy
C34_Witness ==
    /\ ~Parallel
    /\ Len(Listing) = 2
    /\ run = "Aborted"
    /\ unit[Listing[1]].pc = "TableFailed"
    /\ read_log[Listing[1]] # <<>>
    /\ source.db[Listing[2]].rows # <<>>

\* C35: in every step of a run processed_tables stays at or below
\* total_tables and processed_rows does not decrease, and when the run
\* reaches Completed (the source is not changed during a run)
\* processed_tables equals total_tables and processed_rows equals
\* total_rows, the sum of the row counts taken at discovery.
C35_ProgressCounters ==
    [][(run' # "NotStarted") =>
          /\ stats'.processed_tables <= stats'.total_tables
          /\ stats'.processed_rows >= stats.processed_rows
          /\ (run' = "Completed") =>
                /\ stats'.processed_tables = stats'.total_tables
                /\ stats'.processed_rows = stats'.total_rows]_vars

\* rows of t the transform step has returned so far
RowsTransformed(t) ==
    IF unit[t].pc = "Transforming" THEN Len(RowsSeen(t)) - Len(unit[t].batch)
    ELSE Len(RowsSeen(t))

\* C36: when a call of the transform step has returned and no other call
\* is under way, total_values_anonymized is at most total_values_processed,
\* the anonymized-row count is at most the number of rows the transform
\* step has returned, and the per-table counter of every table is the
\* number of its rows the transform step has returned.
C36_TransformCounters ==
    (/\ cfg.enabled
     /\ \E t \in Tables : unit[t].pc = "Writing"
     /\ \A t \in Tables : unit[t].pc # "Transforming") =>
        /\ anonymization_stats.total_values_anonymized
              <= anonymization_stats.total_values_processed
        /\ stats.anonymized_rows <= SumOver([t \in Tables |-> RowsTransformed(t)])
        /\ \A t \in Tables :
              anonymization_stats.tables_processed[t] = RowsTransformed(t)

\* a message with at least one character
NonEmpty(text) == \E i \in 1..Len(text) : text[i] # ""

LastPoll == client.polls[Len(client.polls)]

\* the server reported status success in the last answer read
ReportedSuccess ==
    /\ client.submit = "query_id"
    /\ client.polls # <<>>
    /\ LastPoll.outcome \in {"success", "success_with_url"}

\* a step of the call failed: the submission, a poll, the download, or the
\* wait for a terminal status
SomethingFailed ==
    \/ client.submit # "query_id"
    \/ client.polls = <<>>
    \/ LastPoll.outcome \notin {"success", "success_with_url"}
    \/ (LastPoll.outcome = "success_with_url" /\ client.download # "saved")

\* C37: execute_query lets no exception out: whatever was raised by the
\* submission, a poll or the download is turned into a returned
\* QueryResult; a returned result after any failure has success false
\* and a non-empty error, and a result with success true is returned only
\* when the last answer read reported status success, no exception was
\* raised and the download, if one was due, was saved.
C37_NeverPropagates ==
    /\ client.pc # "Propagated"
    /\ client.pc = "Returned" =>
          /\ SomethingFailed =>
                /\ ~client.result.success
                /\ NonEmpty(client.result.error)
          /\ client.result.success =>
                /\ ReportedSuccess
                /\ client.raised = NoException
                /\ client.result.error = NoText
                /\ (LastPoll.outcome = "success_with_url") =>
                      /\ client.download = "saved"
                      /\ client.result.file_path = "query_results_path"

\* the call has returned a failure made from an exception that is not a
\* QueryError, raised while a poll was handled
C37_Witness ==
    /\ client.pc = "Returned"
    /\ client.polls # <<>>
    /\ client.raised.kind = "TypeError"
    /\ ~client.result.success
    /\ client.result.status_code = 500

\* time spent in _poll_until_complete so far
Elapsed == client.now - client.start_time

\* what the polls made so far allow, and what was returned for them
PollingAsSpecified ==
    /\ \A i \in 1..(Len(client.polls) - 1) : client.polls[i].outcome \in StillPending
    /\ \A i \in 2..Len(client.polls) :
          client.polls[i].sent = client.polls[i - 1].got + client.poll_interval
    /\ \A i \in 1..Len(client.polls) :
          client.polls[i].sent - client.start_time < client.timeout_seconds
    /\ (client.download # None) =>
          (client.polls # <<>> /\ LastPoll.outcome = "success_with_url")
    /\ (client.pc = "Returned" /\ client.submit = "query_id") =>
          IF client.polls = <<>> \/ LastPoll.outcome \in StillPending
          THEN /\ ~client.result.success
               /\ client.result.status_code = 408
               /\ Elapsed >= client.timeout_seconds
          ELSE /\ client.result.status_code # 408
               /\ (LastPoll.outcome = "success") =>
                     (client.result.success /\ client.download = None)
               /\ (LastPoll.outcome = "success_with_url") =>
                     /\ client.download # None
                     /\ client.result.success = (client.download = "saved")
               /\ (LastPoll.outcome = "failed") =>
                     /\ ~client.result.success
                     /\ client.raised = NoException
                     /\ client.download = None
               /\ (LastPoll.outcome \notin {"success", "success_with_url", "failed"}) =>
                     /\ ~client.result.success
                     /\ client.raised = PollError(LastPoll.outcome)

\* C38: polling for a submitted query always comes to its end, and at
\* every moment: only the last answer read is a terminal status or an
\* error (no poll follows one), each poll after the first is sent
\* poll_interval after the answer before it and before timeout_seconds
\* have elapsed, the first status success returns success (with a results
\* URL: once the download is saved), the first status failed returns a
\* failure, and a call that read no terminal status ends with the timeout
\* error 408 when timeout_seconds have elapsed.
C38_PollingEnds ==
    /\ (client.pc = "Polling") ~> (client.pc = "Returned")
    /\ []PollingAsSpecified

\* the call ended with the timeout error after two polls that were
\* answered with a status that is not terminal, one poll_interval apart
C38_Witness ==
    /\ client.pc = "Returned"
    /\ client.result.status_code = 408
    /\ Len(client.polls) >= 2
    /\ client.poll_interval > 0

\* the worker has gone past the query phase
PastQuery ==
    \/ worker.pc \in {"Queried", "Built", "Processing"}
    \/ run # "NotStarted"
    \/ (Exited /\ worker.exit \in {0, 3})

\* C39: in production mode the worker goes on to process query results
\* only when validate_production_mode passed and the query engine client,
\* called after it, returned a result with success true; when the
\* parameters could be loaded and the query was not validated or not
\* successful the worker ends with status 2 having touched neither the
\* input tables nor the output file; in development mode the query engine
\* client is never called and the worker never ends with status 2.
C39_QueryBeforeProcessing ==
    worker.pc # "none" =>
        /\ (client # NoClient) =>
              (~worker.env.dev_mode /\ ValidateProductionMode(worker.env))
        /\ (~worker.env.dev_mode /\ PastQuery) =>
              /\ ValidateProductionMode(worker.env)
              /\ client # NoClient
              /\ client.result.success
        /\ ( /\ Exited /\ QueryFailure(worker.env)
             /\ ~ParamError(worker.env) /\ ~UnexpectedError(worker.env) ) =>
              /\ worker.exit = 2
              /\ Untouched
        /\ (worker.exit = 2) =>
              (Untouched /\ (client = NoClient \/ ~client.result.success))
        /\ worker.env.dev_mode =>
              /\ client = NoClient
              /\ worker.pc # "Queried"
              /\ worker.exit # 2

\* a production run that was handed a successful query result has
\* processed the rows of the result database and ended with status 0
C39_Witness ==
    /\ Exited
    /\ worker.exit = 0
    /\ ~worker.env.dev_mode
    /\ client # NoClient
    /\ client.result.success
    /\ \E t \in Tables : write_log[t] # <<>>

\* C40: a report file is there only when validate_configuration passed
\* and process_database returned with every table unit done; a run whose
\* configuration is rejected or in which a table unit failed leaves no
\* report file; and a report that was written holds the counters as they
\* are at the end of the Completed run, the worker ending with status 0.
C40_ReportAfterSuccess ==
    worker.pc # "none" =>
        /\ (worker.report.state # "absent") =>
              /\ ~BadPipelineConfig
              /\ run = "Completed"
              /\ stats.ended
              /\ \A t \in Tables : unit[t].pc = "TableDone" /\ unit[t].todo = <<>>
        /\ (BadPipelineConfig \/ run = "Aborted"
            \/ \E t \in Tables : unit[t].pc = "TableFailed") =>
              worker.report = NoReport
        /\ (worker.report.state = "written") =>
              /\ worker.exit = 0
              /\ worker.report.content = <<GetAnonymizationReport>>
              /\ worker.report.content[1].processing_stats.total_tables = Len(Listing)

\* a report was written after a run that anonymized a value
C40_Witness ==
    /\ Exited
    /\ worker.report.state = "written"
    /\ worker.report.content[1].anonymization_stats.total_values_anonymized > 0
    /\ worker.report.content[1].processing_stats.anonymized_rows > 0

====
